---------------------------- MODULE Spec2Model ----------------------------
(***************************************************************************)
(* A model of Intersection's DRQL pipeline: the set optimizer              *)
(* (util/unionize_set.rs and its predecessor in main.rs), the interpreter  *)
(* (drql/interpreter.rs) and the render / re-parse round trip              *)
(* (drql/ast.rs, drql/lexer.rs, drql/parser.rs).                           *)
(***************************************************************************)
EXTENDS Integers, Sequences, FiniteSets, TLC

(***************************************************************************)
(* Bounds                                                                  *)
(***************************************************************************)
\* identities are 1..MaxId
MaxId == 3

\* the names (Key) a candidate map may use
Keys == {"A", "B", "C"}

Values == 1..MaxId

\* the identities a resolver may return are 1..MaxUser
MaxUser == 2

UserIds == 1..MaxUser

\* query texts have at most MaxLen characters
MaxLen == 4

\* scanned texts are made of at most MaxPieces pieces
MaxPieces == 6

\* queries with mentions are made of at most MaxWords words and signs
MaxWords == 4

\* queries without parentheses have at most MaxOps operators
MaxOps == 3

\* a message has at most MaxChunks chunks
MaxChunks == 3

\* wrapped vectors have at most MaxElems strings, the size limit is at most MaxSize
MaxElems == 3
MaxSize == 4

VARIABLES
    \* ---- unionize_set (util/unionize_set.rs) ----
    us_pc,                      \* "idle" | "start" | "loop" | "done" | "end"
    call,                       \* which of two successive calls on the same input
    target,                     \* &HashSet<Value>
    preexisting_sets,           \* &HashMap<Key, HashSet<Value>>
    next_id,                    \* number of indexed values
    value_to_index,             \* HashMap<Value, usize>
    target_bitfield,            \* BitVec, as the set of indices whose bit is 1
    preexisting_set_bitfields,  \* HashMap<&Key, BitVec>
    output_keys,                \* HashSet<Key>
    result,                     \* UnionizeSetResult of the current call
    first_result,               \* UnionizeSetResult of the first call
    \* ---- interpret (drql/interpreter.rs) ----
    ip_pc,                      \* "idle" | "start" | "await" | "done"
    ip_node,                    \* the Expr handed to interpret
    ip_stack,                   \* the suspended interpret calls, outermost first
    ip_calls,                   \* the resolver calls made so far, in order
    ip_returns,                 \* what each completed resolver call returned
    ip_inflight,                \* resolver calls started and not yet returned
    ip_result,                  \* Result<HashSet<UserId>, E> of the outermost call
    \* ---- parse, render, parse again (drql/parser.rs, drql/ast.rs) ----
    rt_pc,                      \* "idle" | "start" | "parsed" | "rendered" | "done" | "rejected"
    rt_input,                   \* the query text
    rt_parsed,                  \* parse_drql(input)
    rt_rendered,                \* the tree's Display
    rt_reparsed,                \* parse_drql of the rendered text
    \* ---- scan (drql/scanner.rs) ----
    sc_pc,                      \* "idle" | "iterating" | "done"
    sc_input,                   \* the text
    sc_pos,                     \* where the iterator searches from (1-based)
    sc_chunks,                  \* the items yielded so far
    \* ---- DrqlLexer and parse_drql on one text (drql/lexer.rs, drql/parser.rs) ----
    lx_pc,                      \* "idle" | "lexing" | "lexed" | "done"
    lx_input,                   \* the text
    lx_pos,                     \* the lexer's position in the text (1-based)
    lx_items,                   \* the items the DrqlLexer iterator yielded so far
    lx_outcome,                 \* what ExprParser::parse returned and recorded
    lx_parsed,                  \* what parse_drql returned
    \* ---- wrap_string_vec, chunk_str_vec_into_max_size (util/) ----
    ws_pc,                      \* "idle" | "loop" | "done"
    ws_fn,                      \* which of the two functions is called
    ws_input,                   \* input: the vector of strings
    ws_sep,                     \* sep
    ws_size,                    \* size
    ws_rest,                    \* what the loop has yet to take from
    ws_current,                 \* current
    ws_result,                  \* result
    ws_status,                   \* "-" | "Ok" | "Err": what the call returned
    \* ---- reduce_ast_chunks (main.rs) ----
    fd_pc,                      \* "idle" | "folding" | "none" | "folded"
    fd_chunks,                  \* the trees of the chunks, in scan order
    fd_rest,                    \* what the iterator has yet to yield
    fd_acc,                      \* the accumulator of Iterator::reduce
    \* ---- Resolver (resolver.rs) ----
    rs_pc,                      \* "idle" | "call" | "done"
    rs_roles,                   \* guild.roles: role id -> [name, mentionable]
    rs_members,                 \* guild.members: user id -> name
    rs_invoker,                 \* the permissions of self.member
    rs_call,                    \* the method running and its argument
    rs_checked,                 \* the permission checks that succeeded so far
    rs_result,                   \* what the outermost call returns
    \* ---- all_roles_and_members (extensions.rs) ----
    gm_pc,                      \* "idle" | "start" | "loop" | "done"
    gm_members,                 \* guild.members: user id -> [roles, cached]
    gm_presences,               \* guild.presences: user id -> status
    gm_rest,                    \* the members the loop has yet to visit
    gm_map,                     \* map
    gm_status                   \* "-" | "Ok" | "Err": what the call returned

us_vars == <<us_pc, call, target, preexisting_sets, next_id, value_to_index,
             target_bitfield, preexisting_set_bitfields, output_keys, result,
             first_result>>

ip_vars == <<ip_pc, ip_node, ip_stack, ip_calls, ip_returns, ip_inflight, ip_result>>

rt_vars == <<rt_pc, rt_input, rt_parsed, rt_rendered, rt_reparsed>>

sc_vars == <<sc_pc, sc_input, sc_pos, sc_chunks>>

lx_vars == <<lx_pc, lx_input, lx_pos, lx_items, lx_outcome, lx_parsed>>

ws_vars ==
    <<ws_pc, ws_fn, ws_input, ws_sep, ws_size, ws_rest, ws_current, ws_result, ws_status>>

fd_vars == <<fd_pc, fd_chunks, fd_rest, fd_acc>>

rs_vars == <<rs_pc, rs_roles, rs_members, rs_invoker, rs_call, rs_checked, rs_result>>

gm_vars == <<gm_pc, gm_members, gm_presences, gm_rest, gm_map, gm_status>>

vars == <<us_vars, ip_vars, rt_vars, sc_vars, lx_vars, ws_vars, fd_vars, rs_vars, gm_vars>>

\* what the steps of one component leave alone: the other components
NotUs == <<ip_vars, rt_vars, sc_vars, lx_vars, ws_vars, fd_vars, rs_vars, gm_vars>>
NotIp == <<us_vars, rt_vars, sc_vars, lx_vars, ws_vars, fd_vars, rs_vars, gm_vars>>
NotRt == <<us_vars, ip_vars, sc_vars, lx_vars, ws_vars, fd_vars, rs_vars, gm_vars>>
NotSc == <<us_vars, ip_vars, rt_vars, lx_vars, ws_vars, fd_vars, rs_vars, gm_vars>>
NotLx == <<us_vars, ip_vars, rt_vars, sc_vars, ws_vars, fd_vars, rs_vars, gm_vars>>
NotWs == <<us_vars, ip_vars, rt_vars, sc_vars, lx_vars, fd_vars, rs_vars, gm_vars>>
NotFd == <<us_vars, ip_vars, rt_vars, sc_vars, lx_vars, ws_vars, rs_vars, gm_vars>>
NotRs == <<us_vars, ip_vars, rt_vars, sc_vars, lx_vars, ws_vars, fd_vars, gm_vars>>
NotGm == <<us_vars, ip_vars, rt_vars, sc_vars, lx_vars, ws_vars, fd_vars, rs_vars>>

NoResult == [sets |-> {"-"}, outliers |-> {0}]

(***************************************************************************)
(* Helpers shared by the components                                        *)
(***************************************************************************)
\* every order in which the elements of S can be iterated
Orders(S) == {f \in [1..Cardinality(S) -> S] : \A i, j \in DOMAIN f : f[i] = f[j] => i = j}

\* union of the values of function f over the keys ks
UnionOver(f, ks) == UNION {f[k] : k \in ks}

(***************************************************************************)
(* unionize_set, util/unionize_set.rs                                      *)
(***************************************************************************)
\* .filter(|(_, set)| set.is_subset(target))
filter_unqualified(t, sets) == {k \in DOMAIN sets : TRUE}

filter_overlapping(t, sets) == {k \in DOMAIN sets : sets[k] \cap t # {}}

filtered_preexisting_sets(t, sets) == {k \in DOMAIN sets : sets[k] \subseteq t}

\* the values that get an index: every value of a surviving set, chained with target
indexed_values(t, sets) ==
    UnionOver(sets, filtered_preexisting_sets(t, sets)) \cup t

\* the bitfield of a set of values under the index v2i
bitfield_of(v2i, set) == {v2i[v] : v \in set}

\* bitfield.count_ones()
count_ones(bitfield) == Cardinality(bitfield)

loop_guard_all(bitfields) ==
    DOMAIN bitfields # {} /\ \A k \in DOMAIN bitfields : bitfields[k] # {}

\* the while condition: any bitfield has any bit set
loop_guard(bitfields) == \E k \in DOMAIN bitfields : bitfields[k] # {}

\* .map(count_ones).max()
min_size(bitfields) ==
    LET sizes == {count_ones(bitfields[k]) : k \in DOMAIN bitfields} \ {0}
    IN CHOOSE n \in sizes : \A m \in sizes : n <= m

max_size(bitfields) ==
    CHOOSE n \in {count_ones(bitfields[k]) : k \in DOMAIN bitfields} :
        \A k \in DOMAIN bitfields : n >= count_ones(bitfields[k])

\* the keys of bitfields_with_max_size
tied_keys_above(bitfields) ==
    LET m == max_size(bitfields)
    IN {k \in DOMAIN bitfields : count_ones(bitfields[k]) > m}

tied_keys(bitfields) ==
    LET m == max_size(bitfields)
    IN {k \in DOMAIN bitfields : count_ones(bitfields[k]) = m}

\* union_of_all_bitfields_except(index), over the tied list in iteration order ord
union_of_all_bitfields_except(ord, bitfields, index) ==
    UNION {bitfields[ord[i]] : i \in DOMAIN ord \ {index}}

\* is_distinct(index)
is_distinct(ord, bitfields, index) ==
    count_ones(union_of_all_bitfields_except(ord, bitfields, index)
               \cap bitfields[ord[index]]) = 0

\* the key of max_by_key: (!union_of_all_bitfields_except(index) & bitfield).count_ones()
unique_count(ord, bitfields, index) ==
    count_ones(bitfields[ord[index]]
               \ union_of_all_bitfields_except(ord, bitfields, index))

\* Iterator::max_by_key returns the last of several equally maximal elements
first_index(ord, bitfields) == 1

most_unique_index(ord, bitfields) ==
    CHOOSE i \in DOMAIN ord :
        /\ \A j \in DOMAIN ord :
               unique_count(ord, bitfields, j) <= unique_count(ord, bitfields, i)
        /\ \A j \in DOMAIN ord :
               unique_count(ord, bitfields, j) = unique_count(ord, bitfields, i) => j <= i

\* Iterator::find returns the first distinct set
first_distinct_index(ord, bitfields) ==
    CHOOSE i \in DOMAIN ord :
        /\ is_distinct(ord, bitfields, i)
        /\ \A j \in DOMAIN ord : is_distinct(ord, bitfields, j) => i <= j

\* the match on bitfields_with_max_size.len(); ord is the list's iteration order
selected_set(ord, bitfields) ==
    IF Len(ord) = 1 THEN ord[1]
    ELSE IF \E i \in DOMAIN ord : is_distinct(ord, bitfields, i)
         THEN ord[first_distinct_index(ord, bitfields)]
         ELSE ord[most_unique_index(ord, bitfields)]

\* what selected_set can be: bitfields_with_max_size is collected from a HashMap,
\* whose iteration order is arbitrary (and a fresh map is collected every iteration)
selectable_sets(bitfields) ==
    {selected_set(ord, bitfields) : ord \in Orders(tied_keys(bitfields))}

\* .map(|(key, bitfield)| (*key, !selected_set.1.clone() & bitfield))
drop_overlapping(bitfields, sel) ==
    [k \in DOMAIN bitfields |->
        IF bitfields[k] \cap bitfields[sel] # {} THEN {} ELSE bitfields[k]]

keep_every_bit(bitfields, sel) == bitfields

clear_selected_only(bitfields, sel) ==
    [k \in DOMAIN bitfields |-> IF k = sel THEN {} ELSE bitfields[k]]

new_preexisting_set_bitfields(bitfields, sel) ==
    [k \in DOMAIN bitfields |-> bitfields[k] \ bitfields[sel]]

outliers_whole_target(v2i, t, bitfield) == t

outliers_iter_zeros(v2i, t, bitfield) == {v \in t : v2i[v] \notin bitfield}

\* outliers: target_bitfield.iter_ones() mapped back through index_to_value
outliers_of(v2i, t, bitfield) == {v \in t : v2i[v] \in bitfield}

\* lines 64-191: filter, index, build the bitfields, empty output_keys
UsBuild ==
    /\ us_pc = "start"
    /\ LET vals == indexed_values(target, preexisting_sets)
           n    == Cardinality(vals)
       IN \E v2i \in {f \in [vals -> 0..(n - 1)] :
                         \A a, b \in vals : f[a] = f[b] => a = b} :
            /\ next_id' = n
            /\ value_to_index' = v2i
            /\ target_bitfield' = bitfield_of(v2i, target)
            /\ preexisting_set_bitfields' =
                  [k \in filtered_preexisting_sets(target, preexisting_sets) |->
                      bitfield_of(v2i, preexisting_sets[k])]
    /\ output_keys' = {}
    /\ us_pc' = "loop"
    /\ UNCHANGED <<call, target, preexisting_sets, result, first_result>>
    /\ UNCHANGED NotUs

\* lines 193-294: one iteration of the while loop
UsIterate ==
    /\ us_pc = "loop"
    /\ loop_guard(preexisting_set_bitfields)
    /\ \E sel \in selectable_sets(preexisting_set_bitfields) :
            /\ output_keys' = output_keys \cup {sel}
            /\ target_bitfield' = target_bitfield \ preexisting_set_bitfields[sel]
            /\ preexisting_set_bitfields' =
                  new_preexisting_set_bitfields(preexisting_set_bitfields, sel)
    /\ UNCHANGED <<us_pc, call, target, preexisting_sets, next_id, value_to_index,
                   result, first_result>>
    /\ UNCHANGED NotUs

\* lines 296-317: the loop has ended, build the UnionizeSetResult
UsFinish ==
    /\ us_pc = "loop"
    /\ ~loop_guard(preexisting_set_bitfields)
    /\ result' = [sets |-> output_keys,
                  outliers |-> outliers_of(value_to_index, target, target_bitfield)]
    /\ us_pc' = "done"
    \* the function returns: its locals are dropped
    /\ next_id' = 0
    /\ value_to_index' = << >>
    /\ target_bitfield' = {}
    /\ preexisting_set_bitfields' = << >>
    /\ output_keys' = {}
    /\ UNCHANGED <<call, target, preexisting_sets, first_result>>
    /\ UNCHANGED NotUs

\* the caller calls unionize_set once more with the same target and candidate map
UsCallAgain ==
    /\ us_pc = "done"
    /\ call = 1
    /\ call' = 2
    /\ first_result' = result
    /\ result' = NoResult
    /\ us_pc' = "start"
    /\ UNCHANGED <<target, preexisting_sets, next_id, value_to_index,
                   target_bitfield, preexisting_set_bitfields, output_keys>>
    /\ UNCHANGED NotUs

\* every candidate map: a subset of the keys, each with a set of values
CandidateMaps == UNION {[ks -> SUBSET Values] : ks \in SUBSET Keys}

\* Value is opaque (Eq + Hash only), so a target of n identities is taken as 1..n;
\* the candidates range over all of Values, inside and outside the target
Targets == {1..n : n \in 0..MaxId}

UsInit ==
    /\ us_pc = "start"
    /\ call = 1
    /\ target \in Targets
    /\ preexisting_sets \in CandidateMaps
    /\ next_id = 0
    /\ value_to_index = << >>
    /\ target_bitfield = {}
    /\ preexisting_set_bitfields = << >>
    /\ output_keys = {}
    /\ result = NoResult
    /\ first_result = NoResult

(***************************************************************************)
(* unionize_set as it stands in main.rs                                    *)
(***************************************************************************)
main_qualifying_sets(t, sets) == {k \in DOMAIN sets : sets[k] \subseteq t}

main_optimized_qualifiers(t, sets) ==
    LET q == main_qualifying_sets(t, sets)
    IN {k \in q : ~(\E o \in q : k # o /\ sets[k] \subseteq sets[o])}

main_unionize_set(t, sets) ==
    LET opt == main_optimized_qualifiers(t, sets)
    IN [sets |-> opt, outliers |-> t \ UnionOver(sets, opt)]

(***************************************************************************)
(* Expr, drql/ast.rs                                                       *)
(***************************************************************************)
StringLiteral(contents) == [kind |-> "StringLiteral", v |-> contents]
UnknownID(id) == [kind |-> "UnknownID", v |-> id]
UserID(id) == [kind |-> "UserID", v |-> id]
RoleID(id) == [kind |-> "RoleID", v |-> id]
Node(kind, lhs, rhs) == [kind |-> kind, lhs |-> lhs, rhs |-> rhs]

OpKinds == {"Union", "Intersection", "Difference"}

IsLeaf(node) == node.kind \notin OpKinds

\* a text is a sequence of characters, each a one-character string
Lower == {"a", "b", "c", "d", "e", "f", "g", "h", "i", "j", "k", "l", "m",
          "n", "o", "p", "q", "r", "s", "t", "u", "v", "w", "x", "y", "z"}
Upper == {"A", "B", "C", "D", "E", "F", "G", "H", "I", "J", "K", "L", "M",
          "N", "O", "P", "Q", "R", "S", "T", "U", "V", "W", "X", "Y", "Z"}
Digits == {"0", "1", "2", "3", "4", "5", "6", "7", "8", "9"}

\* char::is_ascii_alphanumeric
is_ascii_alphanumeric(char) == char \in Lower \cup Upper \cup Digits

\* u64's Display: the digits of the number, without leading zeros
RECURSIVE StripZeros(_)
StripZeros(digits) ==
    IF Len(digits) > 1 /\ digits[1] = "0" THEN StripZeros(Tail(digits)) ELSE digits

\* the test of Display's StringLiteral arm
renders_bare(contents) ==
    \A i \in DOMAIN contents :
        is_ascii_alphanumeric(contents[i]) \/ contents[i] = "_"

\* impl Display for Expr
RECURSIVE Display(_)
Display(expr) ==
    CASE expr.kind = "Union" ->
            <<"(">> \o Display(expr.lhs) \o <<" ", "|", " ">> \o Display(expr.rhs) \o <<")">>
      [] expr.kind = "Intersection" ->
            <<"(">> \o Display(expr.lhs) \o <<" ", "&", " ">> \o Display(expr.rhs) \o <<")">>
      [] expr.kind = "Difference" ->
            <<"(">> \o Display(expr.lhs) \o <<" ", "-", " ">> \o Display(expr.rhs) \o <<")">>
      [] expr.kind = "StringLiteral" ->
            IF renders_bare(expr.v) THEN expr.v ELSE <<"\"">> \o expr.v \o <<"\"">>
      [] expr.kind = "UnknownID" -> expr.v
      [] expr.kind = "UserID" -> <<"<", "@">> \o expr.v \o <<">">>
      [] expr.kind = "RoleID" -> <<"<", "@", "&">> \o expr.v \o <<">">>

(***************************************************************************)
(* Tok and DrqlLexer, drql/lexer.rs                                        *)
(***************************************************************************)
\* #[logos(skip r"[ \t\r\n\f]+")]
Whitespace == {" ", "\t", "\r", "\n", "\f"}

\* how many characters from position i on are in `set`
RECURSIVE SpanWhile(_, _, _)
SpanWhile(s, i, set) ==
    IF i <= Len(s) /\ s[i] \in set THEN 1 + SpanWhile(s, i + 1, set) ELSE 0

\* whether the text `lit` stands at position i
StartsWith(s, i, lit) ==
    /\ i + Len(lit) - 1 <= Len(s)
    /\ SubSeq(s, i, i + Len(lit) - 1) = lit

\* the #[token(...)] rules, each with the payload its callback makes
Tokens_keep_at ==
    {[text |-> <<"-">>, tok |-> "Minus", payload |-> << >>],
     [text |-> <<"(">>, tok |-> "LeftParen", payload |-> << >>],
     [text |-> <<")">>, tok |-> "RightParen", payload |-> << >>],
     [text |-> <<"@", "e", "v", "e", "r", "y", "o", "n", "e">>, tok |-> "StringLiteral",
      payload |-> <<"@", "e", "v", "e", "r", "y", "o", "n", "e">>],
     [text |-> <<"@", "h", "e", "r", "e">>, tok |-> "StringLiteral",
      payload |-> <<"@", "h", "e", "r", "e">>]}

Tokens_amp_as_pipe ==
    {[text |-> <<"+">>, tok |-> "Plus", payload |-> << >>],
     [text |-> <<"-">>, tok |-> "Minus", payload |-> << >>],
     [text |-> <<"|">>, tok |-> "Pipe", payload |-> << >>],
     [text |-> <<"&">>, tok |-> "Pipe", payload |-> << >>]}

Tokens ==
    {[text |-> <<"+">>, tok |-> "Plus", payload |-> << >>],
     [text |-> <<"-">>, tok |-> "Minus", payload |-> << >>],
     [text |-> <<"|">>, tok |-> "Pipe", payload |-> << >>],
     [text |-> <<"&">>, tok |-> "Ampersand", payload |-> << >>],
     [text |-> <<"(">>, tok |-> "LeftParen", payload |-> << >>],
     [text |-> <<")">>, tok |-> "RightParen", payload |-> << >>],
     [text |-> <<"@", "e", "v", "e", "r", "y", "o", "n", "e">>, tok |-> "StringLiteral",
      payload |-> <<"e", "v", "e", "r", "y", "o", "n", "e">>],
     [text |-> <<"@", "h", "e", "r", "e">>, tok |-> "StringLiteral",
      payload |-> <<"h", "e", "r", "e">>]}

\* the position after the longest ([^"\\]|\\.)* that starts at j
RECURSIVE StringBodyEnd(_, _)
StringBodyEnd(s, j) ==
    IF j > Len(s) \/ s[j] = "\"" THEN j
    ELSE IF s[j] = "\\"
         THEN IF j + 1 <= Len(s) /\ s[j + 1] # "\n" THEN StringBodyEnd(s, j + 2) ELSE j
         ELSE StringBodyEnd(s, j + 1)

\* the length each rule matches at position i (0: no match)
QuotedLen(s, i) ==
    IF s[i] # "\"" THEN 0
    ELSE LET j == StringBodyEnd(s, i + 1)
         IN IF j <= Len(s) /\ s[j] = "\"" THEN j - i + 1 ELSE 0

UnterminatedLen(s, i) ==
    IF s[i] # "\"" THEN 0 ELSE StringBodyEnd(s, i + 1) - i

IdentLen(s, i) ==
    IF s[i] \in Lower \cup Upper \cup {"_"}
    THEN 1 + SpanWhile(s, i + 1, Lower \cup Upper \cup Digits \cup {"_"})
    ELSE 0

IDLiteralLen(s, i) == SpanWhile(s, i, Digits)

\* <@!?([0-9]+)>
UserMentionLen(s, i) ==
    IF ~StartsWith(s, i, <<"<", "@">>) THEN 0
    ELSE LET bang == IF StartsWith(s, i + 2, <<"!">>) THEN 1 ELSE 0
             n    == SpanWhile(s, i + 2 + bang, Digits)
         IN IF n > 0 /\ StartsWith(s, i + 2 + bang + n, <<">">>)
            THEN 2 + bang + n + 1 ELSE 0

\* <@&[0-9]+>
RoleMentionLen(s, i) ==
    IF ~StartsWith(s, i, <<"<", "@", "&">>) THEN 0
    ELSE LET n == SpanWhile(s, i + 3, Digits)
         IN IF n > 0 /\ StartsWith(s, i + 3 + n, <<">">>) THEN 3 + n + 1 ELSE 0

\* the rules that match at position i, each with the token its callback makes
Matches(s, i) ==
    {[len |-> Len(t.text), ok |-> TRUE, tok |-> t.tok, payload |-> t.payload] :
        t \in {t \in Tokens : StartsWith(s, i, t.text)}}
    \cup {[len |-> QuotedLen(s, i), ok |-> TRUE, tok |-> "StringLiteral",
           payload |-> SubSeq(s, i + 1, i + QuotedLen(s, i) - 2)],
          [len |-> UnterminatedLen(s, i), ok |-> FALSE, tok |-> "UnterminatedStringLiteral",
           payload |-> << >>],
          [len |-> IdentLen(s, i), ok |-> TRUE, tok |-> "StringLiteral",
           payload |-> SubSeq(s, i, i + IdentLen(s, i) - 1)],
          [len |-> IDLiteralLen(s, i), ok |-> TRUE, tok |-> "IDLiteral",
           payload |-> SubSeq(s, i, i + IDLiteralLen(s, i) - 1)],
          [len |-> UserMentionLen(s, i), ok |-> TRUE, tok |-> "UserMention",
           payload |-> IF StartsWith(s, i + 2, <<"!">>)
                       THEN SubSeq(s, i + 3, i + UserMentionLen(s, i) - 2)
                       ELSE SubSeq(s, i + 2, i + UserMentionLen(s, i) - 2)],
          [len |-> RoleMentionLen(s, i), ok |-> TRUE, tok |-> "RoleMention",
           payload |-> SubSeq(s, i + 3, i + RoleMentionLen(s, i) - 2)]}

\* a character outside ASCII, two bytes long in UTF-8
NonAscii == {"U+00E9"}

\* char::len_utf8
len_utf8(char) == IF char \in NonAscii THEN 2 ELSE 1

\* the byte offset of position i of the text (positions count from 1)
RECURSIVE ByteOffset(_, _)
ByteOffset(s, i) ==
    IF i <= 1 THEN 0 ELSE ByteOffset(s, i - 1) + len_utf8(s[i - 1])

\* DrqlLexer::next at position i (not whitespace): the longest match, or
\* UnknownToken with the byte offset and the character found there; `next` is
\* the position the lexer goes on from
NextToken(s, i) ==
    LET ms == {m \in Matches(s, i) : m.len > 0}
    IN IF ms = {}
       THEN [ok |-> FALSE, tok |-> "UnknownToken", payload |-> <<s[i]>>,
             start |-> ByteOffset(s, i), end |-> ByteOffset(s, i + 1), next |-> i + 1]
       ELSE LET m == CHOOSE m \in ms : \A o \in ms : o.len <= m.len
            IN [ok |-> m.ok, tok |-> m.tok, payload |-> m.payload,
                start |-> ByteOffset(s, i), end |-> ByteOffset(s, i + m.len),
                next |-> i + m.len]

\* the items the DrqlLexer iterator yields from position i on, as the parser
\* reads them: it reads none after the first error item
RECURSIVE DrqlLexer(_, _)
DrqlLexer(s, i) ==
    IF i > Len(s) THEN << >>
    ELSE IF s[i] \in Whitespace THEN DrqlLexer(s, i + 1)
    ELSE LET t == NextToken(s, i)
         IN <<t>> \o DrqlLexer(s, t.next)

(***************************************************************************)
(* The grammar (src/grammar.lalrpop, not among the sources): spec 4.3      *)
(***************************************************************************)
NoTree == [kind |-> "NoTree", v |-> << >>]

Parsed(tree, next) == [ok |-> TRUE, tree |-> tree, next |-> next]
NoParse == [ok |-> FALSE, tree |-> NoTree, next |-> 0]

\* literal := StringLiteral | IDLiteral | UserMention | RoleMention
LiteralExpr(t) ==
    CASE t.tok = "StringLiteral" -> StringLiteral(t.payload)
      [] t.tok = "IDLiteral" -> UnknownID(t.payload)
      [] t.tok = "UserMention" -> UserID(StripZeros(t.payload))
      [] t.tok = "RoleMention" -> RoleID(StripZeros(t.payload))

LiteralToks == {"StringLiteral", "IDLiteral", "UserMention", "RoleMention"}

RECURSIVE ParseExpr(_, _)
RECURSIVE ParseUnionRest(_, _, _)
RECURSIVE ParseTerm(_, _)
RECURSIVE ParseTermRest(_, _, _)
RECURSIVE ParseAtom(_, _)

\* atom := literal | '(' expr ')'
ParseAtom(toks, i) ==
    IF i > Len(toks) THEN NoParse
    ELSE IF toks[i].tok \in LiteralToks THEN Parsed(LiteralExpr(toks[i]), i + 1)
    ELSE IF toks[i].tok = "LeftParen"
         THEN LET e == ParseExpr(toks, i + 1)
              IN IF e.ok /\ e.next <= Len(toks) /\ toks[e.next].tok = "RightParen"
                 THEN Parsed(e.tree, e.next + 1) ELSE NoParse
         ELSE NoParse

\* term := term '&' atom | atom
ParseTermRest(toks, i, acc) ==
    IF i <= Len(toks) /\ toks[i].tok = "Ampersand"
    THEN LET a == ParseAtom(toks, i + 1)
         IN IF a.ok THEN ParseTermRest(toks, a.next, Node("Intersection", acc, a.tree))
                    ELSE NoParse
    ELSE Parsed(acc, i)

ParseTerm(toks, i) ==
    LET a == ParseAtom(toks, i)
    IN IF a.ok THEN ParseTermRest(toks, a.next, a.tree) ELSE NoParse

\* union_expr := union_expr ('+'|'|') term | union_expr '-' term | term
ParseUnionRest(toks, i, acc) ==
    IF i <= Len(toks) /\ toks[i].tok \in {"Plus", "Pipe", "Minus"}
    THEN LET t == ParseTerm(toks, i + 1)
             k == IF toks[i].tok = "Minus" THEN "Difference" ELSE "Union"
         IN IF t.ok THEN ParseUnionRest(toks, t.next, Node(k, acc, t.tree)) ELSE NoParse
    ELSE Parsed(acc, i)

\* expr := union_expr
ParseExpr(toks, i) ==
    LET t == ParseTerm(toks, i)
    IN IF t.ok THEN ParseUnionRest(toks, t.next, t.tree) ELSE NoParse

\* ExprParser::new().parse(&mut errors, lexer): the tree of the whole token
\* stream, or a fatal error (a lexer error, or tokens the grammar rejects);
\* no error is recovered from, so `errors` stays empty
ExprParser_parse(items) ==
    IF \E i \in DOMAIN items : ~items[i].ok
    THEN [fatal |-> TRUE, tree |-> NoTree, errors |-> << >>]
    ELSE LET e == ParseExpr(items, 1)
         IN IF e.ok /\ e.next = Len(items) + 1
            THEN [fatal |-> FALSE, tree |-> e.tree, errors |-> << >>]
            ELSE [fatal |-> TRUE, tree |-> NoTree, errors |-> << >>]

\* the errors a grammar with error recovery records
RecoveryErrors == {"UnrecognizedToken", "UnrecognizedEof"}

RecordedErrors ==
    {<<e>> : e \in RecoveryErrors} \cup {<<e, f>> : e \in RecoveryErrors, f \in RecoveryErrors}

\* the trees of the prefixes of the token stream that the grammar accepts
PrefixTrees(items) ==
    {ParseExpr(SubSeq(items, 1, n), 1).tree :
        n \in {n \in 1..Len(items) :
                 LET e == ParseExpr(SubSeq(items, 1, n), 1)
                 IN e.ok /\ e.next = n + 1}}

\* what ExprParser::parse may return and record: as above, and where the
\* grammar rejects the tokens a permissive grammar may instead return a
\* partial tree and record the errors it recovered from
ExprParser_outcomes(items) ==
    LET strict == ExprParser_parse(items)
    IN {strict} \cup
       IF strict.fatal /\ \A i \in DOMAIN items : items[i].ok
       THEN {[fatal |-> FALSE, tree |-> t, errors |-> es] :
                t \in PrefixTrees(items), es \in RecordedErrors}
       ELSE {}

(***************************************************************************)
(* parse_drql, drql/parser.rs                                              *)
(***************************************************************************)
\* the match on the parser's result and the recorded errors
ok_despite_errors(parsed) ==
    IF parsed.fatal THEN [status |-> "Fatal", tree |-> NoTree, errors |-> << >>]
    ELSE [status |-> "Ok", tree |-> parsed.tree, errors |-> << >>]

ok_by_default(parsed) ==
    IF parsed.fatal THEN [status |-> "Ok", tree |-> StringLiteral(<< >>), errors |-> << >>]
    ELSE [status |-> "Ok", tree |-> parsed.tree, errors |-> << >>]

match_result(parsed) ==
    IF parsed.fatal THEN [status |-> "Fatal", tree |-> NoTree, errors |-> << >>]
    ELSE IF parsed.errors = << >>
         THEN [status |-> "Ok", tree |-> parsed.tree, errors |-> << >>]
         ELSE [status |-> "Recoverable", tree |-> parsed.tree, errors |-> parsed.errors]

\* parse_drql, with the grammar that recovers from no error
parse_drql(input) == match_result(ExprParser_parse(DrqlLexer(input, 1)))

\* parse_drql, with a grammar that may recover
parse_drql_results(input) ==
    {match_result(parsed) : parsed \in ExprParser_outcomes(DrqlLexer(input, 1))}

NotParsed == [status |-> "-", tree |-> NoTree, errors |-> << >>]

\* the position of the first character at or after i that is not skipped
RECURSIVE SkipWhitespace(_, _)
SkipWhitespace(s, i) ==
    IF i <= Len(s) /\ s[i] \in Whitespace THEN SkipWhitespace(s, i + 1) ELSE i

Max(S) == CHOOSE x \in S : \A y \in S : y <= x

\* how many characters from position i on are the beginning of `lit`
CommonPrefixLen(s, i, lit) ==
    Max({k \in 0..Len(lit) : StartsWith(s, i, SubSeq(lit, 1, k))})

\* how many characters at position i begin a token of some rule, where no
\* rule matches: the lexer has read that far when it gives up
PartialLen(s, i) ==
    IF s[i] = "@"
    THEN Max({CommonPrefixLen(s, i, t.text) : t \in Tokens})
    ELSE IF StartsWith(s, i, <<"<", "@">>)
         THEN LET mark == IF i + 2 <= Len(s) /\ s[i + 2] \in {"!", "&"} THEN 1 ELSE 0
              IN 2 + mark + SpanWhile(s, i + 2 + mark, Digits)
         ELSE 1

\* consume_rest(s, i): an error item that takes the rest of the text
consume_rest(s, i) ==
    {[NextToken(s, i) EXCEPT !.end = ByteOffset(s, Len(s) + 1), !.next = Len(s) + 1]}

\* the item next() yields at position i: the token, or the error; the span of
\* an UnknownToken ends after the first character or as far as the lexer read
NextItems(s, i) ==
    LET t == NextToken(s, i)
    IN IF t.tok = "UnknownToken"
       THEN {[t EXCEPT !.end = ByteOffset(s, n), !.next = n] :
                n \in i + 1..i + PartialLen(s, i)}
       ELSE {t}

\* DrqlLexer::next yields an item
LxNext ==
    /\ lx_pc = "lexing"
    /\ LET p == SkipWhitespace(lx_input, lx_pos)
       IN /\ p <= Len(lx_input)
          /\ \E item \in NextItems(lx_input, p) :
                /\ lx_items' = Append(lx_items, item)
                /\ lx_pos' = item.next
    /\ UNCHANGED <<lx_pc, lx_input, lx_outcome, lx_parsed>>
    /\ UNCHANGED NotLx

\* DrqlLexer::next returns None: only skipped characters are left
LxNone ==
    /\ lx_pc = "lexing"
    /\ SkipWhitespace(lx_input, lx_pos) > Len(lx_input)
    /\ lx_pc' = "lexed"
    /\ UNCHANGED <<lx_input, lx_pos, lx_items, lx_outcome, lx_parsed>>
    /\ UNCHANGED NotLx

NoOutcome == [fatal |-> FALSE, tree |-> NoTree, errors |-> << >>]

\* parse_drql on the text
LxParse ==
    /\ lx_pc = "lexed"
    /\ \E parsed \in ExprParser_outcomes(DrqlLexer(lx_input, 1)) :
          /\ lx_outcome' = parsed
          /\ lx_parsed' = match_result(parsed)
    /\ lx_pc' = "done"
    /\ UNCHANGED <<lx_input, lx_pos, lx_items>>
    /\ UNCHANGED NotLx

LxInit(texts) ==
    /\ lx_pc = "lexing"
    /\ lx_input \in texts
    /\ lx_pos = 1
    /\ lx_items = << >>
    /\ lx_outcome = NoOutcome
    /\ lx_parsed = NotParsed

\* the characters and the texts the queries are made of
QueryChars == {"a", "1", "0", "\"", "\\", " ", "-", "&", "(", ")", "<", "@", ">"}

RECURSIVE Texts(_)
Texts(n) ==
    IF n = 0 THEN {<< >>}
    ELSE LET shorter == Texts(n - 1)
         IN shorter \cup {Append(t, c) : t \in {t \in shorter : Len(t) = n - 1},
                                          c \in QueryChars}

\* the texts given to the lexer: characters that start a token, that start
\* none, that are skipped, that take two bytes
LexChars == {"a", " ", "#", "U+00E9", "-", "(", ")", "\"", "@", "<"}

RECURSIVE LexTexts(_)
LexTexts(n) ==
    IF n = 0 THEN {<< >>}
    ELSE LET shorter == LexTexts(n - 1)
         IN shorter \cup {Append(t, c) : t \in {t \in shorter : Len(t) = n - 1},
                                          c \in LexChars}

\* queries with mentions: words and signs, one after the other
MentionPieces ==
    {<<"@", "e", "v", "e", "r", "y", "o", "n", "e">>, <<"@", "h", "e", "r", "e">>,
     <<"@", "h">>, <<"a">>, <<" ">>, <<"-">>, <<"(">>, <<")">>}

RECURSIVE MentionTexts(_)
MentionTexts(n) ==
    IF n = 0 THEN {<< >>}
    ELSE LET shorter == MentionTexts(n - 1)
         IN shorter \cup {t \o piece : t \in shorter, piece \in MentionPieces}

\* queries without parentheses: l0 op1 l1 ... opn ln, n <= MaxOps
RECURSIVE OpQueries(_)
OpQueries(n) ==
    IF n = 0 THEN {<<l>> : l \in {"a", "b"}}
    ELSE LET shorter == OpQueries(n - 1)
         IN shorter \cup {q \o <<" ", op, " ", l>> :
                             q \in shorter, op \in {"+", "|", "-", "&"}, l \in {"a", "b"}}

\* a query is parsed
RtParse ==
    /\ rt_pc = "start"
    /\ rt_parsed' = parse_drql(rt_input)
    /\ rt_pc' = IF rt_parsed'.status = "Ok" THEN "parsed" ELSE "rejected"
    /\ UNCHANGED <<rt_input, rt_rendered, rt_reparsed>>
    /\ UNCHANGED NotRt

\* the tree is rendered with Display
RtRender ==
    /\ rt_pc = "parsed"
    /\ rt_rendered' = Display(rt_parsed.tree)
    /\ rt_pc' = "rendered"
    /\ UNCHANGED <<rt_input, rt_parsed, rt_reparsed>>
    /\ UNCHANGED NotRt

\* the rendered text is parsed
RtReparse ==
    /\ rt_pc = "rendered"
    /\ rt_reparsed' = parse_drql(rt_rendered)
    /\ rt_pc' = "done"
    /\ UNCHANGED <<rt_input, rt_parsed, rt_rendered>>
    /\ UNCHANGED NotRt

RtInit ==
    /\ rt_pc = "start"
    /\ rt_input \in Texts(MaxLen)
    /\ rt_parsed = NotParsed
    /\ rt_rendered = << >>
    /\ rt_reparsed = NotParsed

(***************************************************************************)
(* scan, drql/scanner.rs                                                   *)
(***************************************************************************)
\* `.` of the regex: any character but the line break
Dot(char) == char # "\n"

\* the ends e of the matches of @\{(.+?)\} that start at p: "@{" at p, one or
\* more `.` characters, "}" at e
MatchEnds(s, p) ==
    {e \in p + 3..Len(s) :
        /\ StartsWith(s, p, <<"@", "{">>)
        /\ s[e] = "}"
        /\ \A i \in p + 2..e - 1 : Dot(s[i])}

\* the starts of matches at or after position from
MatchStarts(s, from) == {p \in from..Len(s) : MatchEnds(s, p) # {}}

Min(S) == CHOOSE x \in S : \A y \in S : x <= y

\* Regex::find_iter's next item when searching from `from`: the leftmost
\* start, and with the lazy `+?` the nearest end
NextMatch(s, from) ==
    LET p == Min(MatchStarts(s, from))
    IN [start |-> p, end |-> Min(MatchEnds(s, p))]

\* &m.as_str()[2..(m.as_str().len() - 1)]
ChunkOf(s, m) == SubSeq(s, m.start + 2, m.end - 1)

\* the texts scanned: up to MaxPieces pieces, one after the other
Pieces == {<<"@", "{">>, <<"}">>, <<"a">>, <<"\n">>, <<"@">>, <<"{">>}

RECURSIVE PieceTexts(_)
PieceTexts(n) ==
    IF n = 0 THEN {<< >>}
    ELSE LET shorter == PieceTexts(n - 1)
         IN shorter \cup {t \o piece : t \in shorter, piece \in Pieces}

\* the iterator's next(), when the regex matches again
ScYield ==
    /\ sc_pc = "iterating"
    /\ MatchStarts(sc_input, sc_pos) # {}
    /\ LET m == NextMatch(sc_input, sc_pos)
       IN /\ sc_chunks' = Append(sc_chunks, ChunkOf(sc_input, m))
          /\ sc_pos' = m.end + 1
    /\ UNCHANGED <<sc_pc, sc_input>>
    /\ UNCHANGED NotSc

\* the iterator's next(), when the regex matches no more: None
ScEnd ==
    /\ sc_pc = "iterating"
    /\ MatchStarts(sc_input, sc_pos) = {}
    /\ sc_pc' = "done"
    /\ UNCHANGED <<sc_input, sc_pos, sc_chunks>>
    /\ UNCHANGED NotSc

ScInit ==
    /\ sc_pc = "iterating"
    /\ sc_input \in PieceTexts(MaxPieces)
    /\ sc_pos = 1
    /\ sc_chunks = << >>

(***************************************************************************)
(* wrap_string_vec, util/wrap_string_vec.rs, and                           *)
(* chunk_str_vec_into_max_size, util/chunk_str_vec_into_max_size.rs        *)
(***************************************************************************)
\* Vec::reverse
RECURSIVE Reverse(_)
Reverse(seq) ==
    IF seq = << >> THEN << >> ELSE Append(Reverse(Tail(seq)), Head(seq))

\* next.len() > size
too_large_or_equal(next, size) == Len(next) >= size

too_large(next, size) == Len(next) > size

\* current.len() + next.len() + sep.len() > size
overflows_without_sep(current, next, sep, size) == Len(current) + Len(next) > size

overflows(current, next, sep, size) == Len(current) + Len(next) + Len(sep) > size

\* the else branch: push_str(sep) unless current is empty, then push_str(next)
pushed(current, next, sep) ==
    IF current # << >> THEN current \o sep \o next ELSE next

\* one turn of the loop with the element `next`, `rest` being left after it
LoopBody(next, rest) ==
    IF too_large(next, ws_size)
    THEN /\ ws_status' = "Err"
         /\ ws_pc' = "done"
         /\ ws_rest' = << >>
         /\ ws_current' = << >>
         /\ ws_result' = << >>
    ELSE /\ ws_rest' = rest
         /\ IF overflows(ws_current, next, ws_sep, ws_size)
            THEN /\ ws_result' = Append(ws_result, ws_current)
                 /\ ws_current' = next
            ELSE /\ ws_current' = pushed(ws_current, next, ws_sep)
                 /\ ws_result' = ws_result
         /\ UNCHANGED <<ws_pc, ws_status>>

\* wrap_string_vec: for next in input
WrapNext ==
    /\ ws_pc = "loop"
    /\ ws_fn = "wrap_string_vec"
    /\ ws_rest # << >>
    /\ LoopBody(Head(ws_rest), Tail(ws_rest))
    /\ UNCHANGED <<ws_fn, ws_input, ws_sep, ws_size>>
    /\ UNCHANGED NotWs

\* chunk_str_vec_into_max_size: while let Some(next) = input.pop()
ChunkNext ==
    /\ ws_pc = "loop"
    /\ ws_fn = "chunk_str_vec_into_max_size"
    /\ ws_rest # << >>
    /\ LoopBody(ws_rest[Len(ws_rest)], SubSeq(ws_rest, 1, Len(ws_rest) - 1))
    /\ UNCHANGED <<ws_fn, ws_input, ws_sep, ws_size>>
    /\ UNCHANGED NotWs

\* after the loop: push current unless it is empty, return Ok(result)
WsReturn ==
    /\ ws_pc = "loop"
    /\ ws_rest = << >>
    /\ ws_result' = IF ws_current # << >> THEN Append(ws_result, ws_current) ELSE ws_result
    /\ ws_current' = << >>
    /\ ws_status' = "Ok"
    /\ ws_pc' = "done"
    /\ UNCHANGED <<ws_fn, ws_input, ws_sep, ws_size, ws_rest>>
    /\ UNCHANGED NotWs

\* the strings, separators and vectors the functions are called with
Strings == {<< >>, <<"a">>, <<"b", "b">>, <<"c", "c", "c">>}

Separators == {<< >>, <<" ">>, <<",", " ">>}

RECURSIVE StringVecs(_)
StringVecs(n) ==
    IF n = 0 THEN {<< >>}
    ELSE LET shorter == StringVecs(n - 1)
         IN shorter \cup {Append(v, str) : v \in shorter, str \in Strings}

WsInit ==
    /\ ws_pc = "loop"
    /\ ws_fn \in {"wrap_string_vec", "chunk_str_vec_into_max_size"}
    /\ ws_input \in StringVecs(MaxElems)
    /\ ws_sep \in Separators
    /\ ws_size \in 0..MaxSize
    /\ ws_rest = IF ws_fn = "wrap_string_vec" THEN ws_input ELSE Reverse(ws_input)
    /\ ws_current = << >>
    /\ ws_result = << >>
    /\ ws_status = "-"

(***************************************************************************)
(* interpret, drql/interpreter.rs                                          *)
(***************************************************************************)
\* Result<HashSet<UserId>, E>
Ok(value) == [ok |-> TRUE, value |-> value, err |-> ""]
Err(e) == [ok |-> FALSE, value |-> {}, err |-> e]
NoValue == [ok |-> FALSE, value |-> {}, err |-> "-"]

\* the leaf arms of the match: one resolver method per leaf kind
resolver_method(node) ==
    CASE node.kind = "StringLiteral" -> "resolve_string_literal"
      [] node.kind = "UnknownID" -> "resolve_unknown_id"
      [] node.kind = "UserID" -> "resolve_user_id"
      [] node.kind = "RoleID" -> "resolve_role_id"

\* the binary arms of the match
combine_flipped(kind, lhs, rhs) ==
    CASE kind = "Difference" -> rhs \ lhs
      [] kind = "Intersection" -> lhs \cap rhs
      [] kind = "Union" -> lhs \cup rhs

combine(kind, lhs, rhs) ==
    CASE kind = "Difference" -> lhs \ rhs
      [] kind = "Intersection" -> lhs \cap rhs
      [] kind = "Union" -> lhs \cup rhs

\* the operand a binary arm evaluates (and awaits) first, and the one it
\* evaluates after that: the receiver of the method call, then its argument
rhs_first(node) == [node |-> node.rhs, side |-> "r"]

first_operand(node) == [node |-> node.lhs, side |-> "l"]

second_operand(node) == [node |-> node.rhs, side |-> "r"]

\* the `?` on an awaited result: go on with the value, or return the error
unwrap_or_default(ret) ==
    [continue |-> TRUE, value |-> IF ret.ok THEN ret.value ELSE {}]

check_after_both(ret) ==
    [continue |-> TRUE, value |-> ret.value]

question_mark(ret) ==
    [continue |-> ret.ok, value |-> ret.value]

Frame(node, path, stage, lhs) == [node |-> node, path |-> path, stage |-> stage, lhs |-> lhs]

\* interpret(node) runs down to its first leaf without suspending
RECURSIVE Descend(_, _, _)
Descend(stack, node, path) ==
    IF IsLeaf(node)
    THEN Append(stack, Frame(node, path, "leaf", {}))
    ELSE LET op == first_operand(node)
         IN Descend(Append(stack, Frame(node, path, "first", {})),
                    op.node, Append(path, op.side))

\* a call has produced the set `value`: the suspended callers go on, up to the
\* next leaf or to the end of the outermost call
RECURSIVE Unwind(_, _)
Unwind(stack, value) ==
    IF stack = << >>
    THEN [done |-> TRUE, stack |-> << >>, value |-> value]
    ELSE LET top  == stack[Len(stack)]
             rest == SubSeq(stack, 1, Len(stack) - 1)
         IN IF top.stage = "first"
            THEN LET op == second_operand(top.node)
                 IN [done |-> FALSE,
                     stack |-> Descend(Append(rest, Frame(top.node, top.path, "second", value)),
                                       op.node, Append(top.path, op.side)),
                     value |-> {}]
            ELSE Unwind(rest, combine(top.node.kind, top.lhs, value))

\* the resolver call of the leaf on top of the stack
ResolverCall(stack) ==
    LET leaf == stack[Len(stack)]
    IN [path |-> leaf.path, method |-> resolver_method(leaf.node), arg |-> leaf.node.v]

\* what a resolver may answer: any set of users, or one of its errors
ResolverErrors == {"not_found", "permission_denied"}

ResolverAnswers == {Ok(set) : set \in SUBSET UserIds} \cup {Err(e) : e \in ResolverErrors}

\* interpret is called: it runs to its first resolver call and suspends there
IpStart ==
    /\ ip_pc = "start"
    /\ LET stack == Descend(<< >>, ip_node, << >>)
       IN /\ ip_stack' = stack
          /\ ip_calls' = Append(ip_calls, ResolverCall(stack))
    /\ ip_inflight' = ip_inflight + 1
    /\ ip_pc' = "await"
    /\ UNCHANGED <<ip_node, ip_returns, ip_result>>
    /\ UNCHANGED NotIp

\* the awaited resolver call returns: the error is returned through every
\* caller, or evaluation goes on to the next resolver call or to the result
IpResolverReturns ==
    /\ ip_pc = "await"
    /\ \E ret \in ResolverAnswers :
         LET q == question_mark(ret)
             u == Unwind(SubSeq(ip_stack, 1, Len(ip_stack) - 1), q.value)
         IN /\ ip_returns' = Append(ip_returns, ret)
            /\ IF ~q.continue
               THEN /\ ip_result' = Err(ret.err)
                    /\ ip_stack' = << >>
                    /\ ip_calls' = ip_calls
                    /\ ip_inflight' = ip_inflight - 1
                    /\ ip_pc' = "done"
               ELSE IF u.done
               THEN /\ ip_result' = Ok(u.value)
                    /\ ip_stack' = << >>
                    /\ ip_calls' = ip_calls
                    /\ ip_inflight' = ip_inflight - 1
                    /\ ip_pc' = "done"
               ELSE /\ ip_result' = ip_result
                    /\ ip_stack' = u.stack
                    /\ ip_calls' = Append(ip_calls, ResolverCall(u.stack))
                    /\ ip_inflight' = ip_inflight - 1 + 1
                    /\ ip_pc' = "await"
    /\ UNCHANGED ip_node
    /\ UNCHANGED NotIp

\* the leaves and the trees interpret is called with
Leaves == {StringLiteral(<<"a">>), UnknownID(<<"1">>), UserID(<<"1">>), RoleID(<<"1">>)}

Nodes(ls, rs) == {Node(k, l, r) : k \in OpKinds, l \in ls, r \in rs}

OneOp == Nodes(Leaves, Leaves)

ExprTrees == Leaves \cup OneOp \cup Nodes(OneOp, Leaves) \cup Nodes(Leaves, OneOp)

IpInit ==
    /\ ip_pc = "start"
    /\ ip_node \in ExprTrees
    /\ ip_stack = << >>
    /\ ip_calls = << >>
    /\ ip_returns = << >>
    /\ ip_inflight = 0
    /\ ip_result = NoValue

(***************************************************************************)
(* reduce_ast_chunks, main.rs, and the interpretation of its result        *)
(***************************************************************************)
None == [some |-> FALSE, tree |-> NoTree]
Some(tree) == [some |-> TRUE, tree |-> tree]

\* |acc, chunk| ast::Expr::Union(Box::new(acc), Box::new(chunk))
fold_union_flipped(acc, chunk) == Node("Union", chunk, acc)

fold_union(acc, chunk) == Node("Union", acc, chunk)

\* Iterator::reduce takes the next tree: the first one starts the accumulator
FdNext ==
    /\ fd_pc = "folding"
    /\ fd_rest # << >>
    /\ fd_acc' = IF fd_acc.some THEN Some(fold_union(fd_acc.tree, Head(fd_rest)))
                               ELSE Some(Head(fd_rest))
    /\ fd_rest' = Tail(fd_rest)
    /\ UNCHANGED <<fd_pc, fd_chunks>>
    /\ UNCHANGED NotFd

\* the iterator is at its end: without a tree the handler returns, with one
\* it calls interpret on it
FdEnd ==
    /\ fd_pc = "folding"
    /\ fd_rest = << >>
    /\ IF fd_acc.some
       THEN /\ fd_pc' = "folded"
            /\ ip_node' = fd_acc.tree
            /\ ip_pc' = "start"
       ELSE /\ fd_pc' = "none"
            /\ UNCHANGED <<ip_node, ip_pc>>
    /\ UNCHANGED <<fd_chunks, fd_rest, fd_acc>>
    /\ UNCHANGED <<ip_stack, ip_calls, ip_returns, ip_inflight, ip_result>>
    /\ UNCHANGED <<us_vars, rt_vars, sc_vars, lx_vars, ws_vars, rs_vars, gm_vars>>

\* the trees of the chunks of a message: one-leaf queries, and at most one
\* query with an operator
LeafChunk == StringLiteral(<<"a">>)
OpChunk == Node("Difference", UserID(<<"1">>), RoleID(<<"1">>))

ChunkTrees(n) ==
    {chunks \in UNION {[1..m -> {LeafChunk, OpChunk}] : m \in 0..n} :
        Cardinality({k \in DOMAIN chunks : chunks[k] = OpChunk}) <= 1}

FdInit ==
    /\ fd_pc = "folding"
    /\ fd_chunks \in ChunkTrees(MaxChunks)
    /\ fd_rest = fd_chunks
    /\ fd_acc = None

(***************************************************************************)
(* Resolver, resolver.rs                                                   *)
(***************************************************************************)
\* self.guild.id; the role of that ID is the guild's @everyone role
GuildId == 0

RoleIds == {GuildId, 1, 2}

Names == {"a", "b"}

DigitChars == <<"0", "1", "2", "3", "4", "5", "6", "7", "8", "9">>

\* u64::to_string
RECURSIVE to_string(_)
to_string(n) ==
    IF n < 10 THEN <<DigitChars[n + 1]>>
    ELSE to_string(n \div 10) \o <<DigitChars[(n % 10) + 1]>>

RECURSIVE DecimalValue(_)
DecimalValue(text) ==
    IF text = << >> THEN 0
    ELSE DecimalValue(SubSeq(text, 1, Len(text) - 1)) * 10
         + (CHOOSE n \in 0..9 : DigitChars[n + 1] = text[Len(text)])

\* str::parse::<u64>, for texts short of overflow
parse_u64(text) ==
    IF text # << >> /\ \A i \in DOMAIN text : text[i] \in Digits
    THEN [ok |-> TRUE, value |-> DecimalValue(text)]
    ELSE [ok |-> FALSE, value |-> 0]

\* what a resolver method returns: the set is named by its kind and ID
\* ("user" is the set of that one user, "role" the members of that role)
RsOk(kind, id) == [ok |-> TRUE, kind |-> kind, id |-> id]
RsErr == [ok |-> FALSE, kind |-> "error", id |-> 0]
RsPanic(what) == [ok |-> FALSE, kind |-> what, id |-> 0]
RsNone == [ok |-> FALSE, kind |-> "-", id |-> 0]

RsCall(method, literal, text, id) ==
    [method |-> method, literal |-> literal, text |-> text, id |-> id]
NoCall == RsCall("-", "", << >>, 0)

\* a method body ends by returning, or by calling another method and
\* returning what that returns; `checked` are the checks it passed on the way
Return(res) == [tail |-> FALSE, result |-> res, call |-> NoCall, checked |-> {}]
ReturnChecked(res, checked) ==
    [tail |-> FALSE, result |-> res, call |-> NoCall, checked |-> checked]
TailCall(call_, checked) ==
    [tail |-> TRUE, result |-> RsNone, call |-> call_, checked |-> checked]

\* CustomMemberImpl::can_mention_role, extensions.rs: both permission lookups
\* come first and may fail
can_mention_role(invoker, role) ==
    IF ~invoker.guild_ok \/ ~invoker.channel_ok
    THEN [ok |-> FALSE, value |-> FALSE]
    ELSE [ok |-> TRUE,
          value |-> \/ invoker.administrator
                    \/ role.mentionable
                    \/ invoker.mention_everyone
                    \/ invoker.channel_mention_everyone]

\* the first match of resolve_string_literal, on the two lengths
match_counts_without_none(members_matched, roles_matched) ==
    IF members_matched >= 1 /\ roles_matched >= 1 THEN "both"
    ELSE IF members_matched > 1 THEN "members"
    ELSE IF roles_matched > 1 THEN "roles"
    ELSE "continue"

match_counts(members_matched, roles_matched) ==
    IF members_matched >= 1 /\ roles_matched >= 1 THEN "both"
    ELSE IF members_matched > 1 THEN "members"
    ELSE IF roles_matched > 1 THEN "roles"
    ELSE IF members_matched = 0 /\ roles_matched = 0 THEN "none"
    ELSE "continue"

\* the second match, on (possible_members.first(), possible_roles.first())
match_first(invoker, roles, possible_members, possible_roles) ==
    IF possible_members # {} /\ possible_roles = {}
    THEN {TailCall(RsCall("resolve_user_id", "", << >>, m), {}) : m \in possible_members}
    ELSE IF possible_members = {} /\ possible_roles # {}
    THEN {IF ~can_mention_role(invoker, roles[r]).ok THEN Return(RsErr)
          ELSE IF ~can_mention_role(invoker, roles[r]).value THEN Return(RsErr)
          ELSE TailCall(RsCall("resolve_role_id", "", << >>, r), {<<"can_mention_role", r>>})
            : r \in possible_roles}
    ELSE {Return(RsPanic("unreachable"))}

\* lines 33-55: the literal is everyone or here
everyone_or_here(invoker, literal) ==
    IF ~invoker.guild_ok THEN Return(RsErr)
    ELSE IF ~invoker.mention_everyone THEN Return(RsErr)
    ELSE ReturnChecked(RsOk(literal, GuildId), {<<"mention_everyone", GuildId>>})

\* lines 56-176: any other literal; search_members asks the platform and may fail
by_name(invoker, roles, members, literal) ==
    LET possible_members == {m \in DOMAIN members : members[m] = literal}
        possible_roles == {r \in DOMAIN roles : roles[r].name = literal}
        arm == match_counts(Cardinality(possible_members), Cardinality(possible_roles))
    IN {Return(RsErr)} \cup
       (IF arm # "continue" THEN {Return(RsErr)}
        ELSE IF Cardinality(possible_members) + Cardinality(possible_roles) # 1
        THEN {Return(RsPanic("assert"))}
        ELSE match_first(invoker, roles, possible_members, possible_roles))

resolve_string_literal(invoker, roles, members, literal) ==
    IF literal = "everyone" \/ literal = "here"
    THEN {everyone_or_here(invoker, literal)}
    ELSE by_name(invoker, roles, members, literal)

\* lines 181-237
resolve_unknown_id(invoker, roles, members, text) ==
    IF text = to_string(GuildId)
    THEN TailCall(RsCall("resolve_string_literal", "everyone", << >>, 0), {})
    ELSE IF ~parse_u64(text).ok THEN Return(RsErr)
    ELSE LET id == parse_u64(text).value
             possible_member == id \in DOMAIN members
             possible_role == id \in DOMAIN roles
         IN IF possible_member /\ possible_role THEN Return(RsErr)
            ELSE IF possible_member
            THEN TailCall(RsCall("resolve_user_id", "", << >>, id), {})
            ELSE IF possible_role
            THEN IF ~can_mention_role(invoker, roles[id]).ok THEN Return(RsErr)
                 ELSE IF ~can_mention_role(invoker, roles[id]).value THEN Return(RsErr)
                 ELSE TailCall(RsCall("resolve_role_id", "", << >>, id),
                               {<<"can_mention_role", id>>})
            ELSE Return(RsErr)

\* lines 240-246
resolve_user_id(id) == Return(RsOk("user", id))

\* lines 249-266
resolve_role_id(roles, id) ==
    IF to_string(id) = to_string(GuildId)
    THEN TailCall(RsCall("resolve_string_literal", "everyone", << >>, 0), {})
    ELSE IF id \notin DOMAIN roles THEN Return(RsErr)
    ELSE Return(RsOk("role", id))

\* the running method comes to its end
RsEnd(out) ==
    /\ rs_checked' = rs_checked \cup out.checked
    /\ IF out.tail
       THEN /\ rs_call' = out.call
            /\ UNCHANGED <<rs_pc, rs_result>>
       ELSE /\ rs_pc' = "done"
            /\ rs_result' = out.result
            /\ UNCHANGED rs_call
    /\ UNCHANGED <<rs_roles, rs_members, rs_invoker>>
    /\ UNCHANGED NotRs

RsStringLiteral ==
    /\ rs_pc = "call"
    /\ rs_call.method = "resolve_string_literal"
    /\ \E out \in resolve_string_literal(rs_invoker, rs_roles, rs_members, rs_call.literal) :
          RsEnd(out)

RsUnknownId ==
    /\ rs_pc = "call"
    /\ rs_call.method = "resolve_unknown_id"
    /\ RsEnd(resolve_unknown_id(rs_invoker, rs_roles, rs_members, rs_call.text))

RsUserId ==
    /\ rs_pc = "call"
    /\ rs_call.method = "resolve_user_id"
    /\ RsEnd(resolve_user_id(rs_call.id))

RsRoleId ==
    /\ rs_pc = "call"
    /\ rs_call.method = "resolve_role_id"
    /\ RsEnd(resolve_role_id(rs_roles, rs_call.id))

\* the guilds: the @everyone role is always there, the other roles and the
\* members may be, each under one of two names
Guilds ==
    {roles \in UNION {[ids -> [name : Names, mentionable : BOOLEAN]] :
                         ids \in {ids \in SUBSET RoleIds : GuildId \in ids}} :
        roles[GuildId].name = "b"}

GuildMembers == UNION {[ids -> Names] : ids \in SUBSET UserIds}

Permissions(guild_ok, channel_ok, administrator, mention_everyone_, channel_mention_everyone) ==
    [guild_ok |-> guild_ok, channel_ok |-> channel_ok, administrator |-> administrator,
     mention_everyone |-> mention_everyone_,
     channel_mention_everyone |-> channel_mention_everyone]

\* the invoker: no permission, one of the three that matter, or a lookup that fails
Invokers ==
    {Permissions(TRUE, TRUE, FALSE, FALSE, FALSE),
     Permissions(TRUE, TRUE, TRUE, FALSE, FALSE),
     Permissions(TRUE, TRUE, FALSE, TRUE, FALSE),
     Permissions(TRUE, TRUE, FALSE, FALSE, TRUE),
     Permissions(FALSE, TRUE, FALSE, FALSE, FALSE),
     Permissions(TRUE, FALSE, FALSE, FALSE, FALSE),
     Permissions(TRUE, FALSE, FALSE, TRUE, FALSE)}

\* what the interpreter may ask of the resolver
Requests ==
    {RsCall("resolve_string_literal", l, << >>, 0) : l \in {"everyone", "here", "a"}}
    \cup {RsCall("resolve_unknown_id", "", t, 0) :
            t \in {to_string(i) : i \in RoleIds \cup UserIds} \cup {<<"x">>, <<"0", "0">>}}
    \cup {RsCall("resolve_user_id", "", << >>, 1)}
    \cup {RsCall("resolve_role_id", "", << >>, r) : r \in RoleIds \cup UserIds}

RsInit ==
    /\ rs_pc = "call"
    /\ rs_roles \in Guilds
    /\ rs_members \in GuildMembers
    /\ rs_invoker \in Invokers
    /\ rs_call \in Requests
    /\ rs_checked = {}
    /\ rs_result = RsNone

(***************************************************************************)
(* CustomGuildImpl, extensions.rs                                          *)
(***************************************************************************)
\* models::mention::RoleType
Everyone == [kind |-> "Everyone", id |-> 0]
Here == [kind |-> "Here", id |-> 0]
Role(id) == [kind |-> "Role", id |-> id]

\* self.members.values().map(|member| member.user.id)
get_everyone(members) == DOMAIN members

\* get_everyone() filtered by a presence that is not Offline
get_here_of_presences(members, presences) ==
    {id \in DOMAIN presences : presences[id] # "Offline"}

get_here(members, presences) ==
    {id \in get_everyone(members) :
        IF id \in DOMAIN presences THEN presences[id] # "Offline" ELSE FALSE}

\* map.entry(key).or_insert_with(HashSet::new).insert(value), for the keys
\* Role(r) of the roles in `roles`
insert_all(map, roles, value) ==
    [k \in DOMAIN map \cup {Role(r) : r \in roles} |->
        IF k \in {Role(r) : r \in roles}
        THEN (IF k \in DOMAIN map THEN map[k] ELSE {}) \cup {value}
        ELSE map[k]]

\* lines 98-101: the map starts with Everyone and Here
GmStart ==
    /\ gm_pc = "start"
    /\ gm_map' = [k \in {Everyone, Here} |->
                    IF k = Everyone THEN get_everyone(gm_members)
                    ELSE get_here(gm_members, gm_presences)]
    /\ gm_rest' = DOMAIN gm_members
    /\ gm_pc' = "loop"
    /\ UNCHANGED <<gm_members, gm_presences, gm_status>>
    /\ UNCHANGED NotGm

\* lines 103-112: the next member of members.values(), a HashMap; its roles
\* are looked up, which may fail, and the member is inserted under each
GmMember ==
    /\ gm_pc = "loop"
    /\ \E id \in gm_rest :
          IF gm_members[id].cached
          THEN /\ gm_map' = insert_all(gm_map, gm_members[id].roles, id)
               /\ gm_rest' = gm_rest \ {id}
               /\ UNCHANGED <<gm_pc, gm_status>>
          ELSE /\ gm_status' = "Err"
               /\ gm_pc' = "done"
               /\ UNCHANGED <<gm_map, gm_rest>>
    /\ UNCHANGED <<gm_members, gm_presences>>
    /\ UNCHANGED NotGm

\* line 114: Ok(map)
GmReturn ==
    /\ gm_pc = "loop"
    /\ gm_rest = {}
    /\ gm_status' = "Ok"
    /\ gm_pc' = "done"
    /\ UNCHANGED <<gm_members, gm_presences, gm_rest, gm_map>>
    /\ UNCHANGED NotGm

\* the members of a guild with their roles, and the presences the guild
\* knows, of members and of others
MemberMaps ==
    UNION {[ids -> [roles : SUBSET (RoleIds \ {GuildId}), cached : BOOLEAN]] :
             ids \in SUBSET UserIds}

Presences == UNION {[ids -> {"Online", "Offline"}] : ids \in SUBSET UserIds}

NoMap == << >>

GmInit ==
    /\ gm_pc = "start"
    /\ gm_members \in MemberMaps
    /\ gm_presences \in Presences
    /\ gm_rest = {}
    /\ gm_map = NoMap
    /\ gm_status = "-"

(***************************************************************************)
(* Claims about unionize_set                                               *)
(***************************************************************************)
UsDone == us_pc = "done"

\* the candidates whose member set is the target
EqualToTarget == {k \in DOMAIN preexisting_sets : preexisting_sets[k] = target}

\* C1: the member sets of the chosen names, together with the outliers, are the
\* target exactly: nothing of the target is missing, nothing outside it is added.
\* This is so for unionize_set of util/unionize_set.rs and for the one in main.rs.
C1_ExactCover ==
    UsDone =>
        /\ UnionOver(preexisting_sets, result.sets) \cup result.outliers = target
        /\ LET r == main_unionize_set(target, preexisting_sets)
           IN UnionOver(preexisting_sets, r.sets) \cup r.outliers = target

C1_Witness ==
    /\ UsDone
    /\ result.sets # {}
    /\ result.outliers # {}
    /\ \E k \in DOMAIN preexisting_sets : ~(preexisting_sets[k] \subseteq target)
    /\ main_unionize_set(target, preexisting_sets).sets # {}

\* C2: no chosen candidate has a member outside the target.
C2_OnlySubsetsChosen ==
    UsDone => \A k \in result.sets : preexisting_sets[k] \subseteq target

C2_Witness ==
    /\ UsDone
    /\ result.sets # {}
    /\ \E k \in DOMAIN preexisting_sets :
          /\ ~(preexisting_sets[k] \subseteq target)
          /\ Cardinality(preexisting_sets[k] \cap target) >= 2
          /\ \A c \in result.sets :
                Cardinality(preexisting_sets[c]) < Cardinality(preexisting_sets[k] \cap target)
          /\ k \notin result.sets

\* C3: no chosen candidate's member set is a subset of another chosen
\* candidate's member set; in particular equal candidates are never both chosen.
C3_NoRedundantChosen ==
    UsDone =>
        \A a, b \in result.sets :
            a # b => ~(preexisting_sets[a] \subseteq preexisting_sets[b])

C3_Witness ==
    /\ UsDone
    /\ Cardinality(result.sets) >= 2
    /\ \E a \in result.sets : \E k \in DOMAIN preexisting_sets \ result.sets :
          /\ preexisting_sets[k] # {}
          /\ preexisting_sets[k] \subseteq preexisting_sets[a]
          /\ preexisting_sets[k] # preexisting_sets[a]

C9_EqualCandidateChosen ==
    UsDone =>
        \A k \in EqualToTarget : result.sets = {k} /\ result.outliers = {}

\* C9 amended: when the target is not empty and some candidate's member set is
\* the target, the chosen names are exactly one such candidate, and there are
\* no outliers.
C9_OneEqualCandidateChosen ==
    (UsDone /\ target # {} /\ EqualToTarget # {}) =>
        /\ \E k \in EqualToTarget : result.sets = {k}
        /\ result.outliers = {}

C9_Witness ==
    /\ UsDone
    /\ Cardinality(target) >= 2
    /\ DOMAIN preexisting_sets = Keys
    /\ Cardinality(EqualToTarget) = 1
    /\ result.sets = EqualToTarget
    /\ \E k \in Keys : preexisting_sets[k] # {} /\ preexisting_sets[k] # target
                        /\ preexisting_sets[k] \subseteq target
    /\ \E k \in Keys : ~(preexisting_sets[k] \subseteq target)

\* C10 as stated: with two or more candidates whose member sets are the target,
\* exactly one of them is chosen and there are no outliers.
C10_OneOfEqualChosen ==
    (UsDone /\ Cardinality(EqualToTarget) >= 2) =>
        /\ Cardinality(result.sets \cap EqualToTarget) = 1
        /\ result.outliers = {}

\* C10 amended: the same, for a target that is not empty.
C10_OneOfEqualChosenNonEmpty ==
    (UsDone /\ target # {} /\ Cardinality(EqualToTarget) >= 2) =>
        /\ Cardinality(result.sets \cap EqualToTarget) = 1
        /\ result.outliers = {}

C10_Witness ==
    /\ UsDone
    /\ target # {}
    /\ Cardinality(EqualToTarget) >= 2
    /\ Cardinality(result.sets) = 1
    /\ result.outliers = {}

\* the candidates that are non-empty subsets of the target
NonEmptySubsets ==
    {k \in DOMAIN preexisting_sets :
        preexisting_sets[k] # {} /\ preexisting_sets[k] \subseteq target}

\* C11: when no candidate is a non-empty subset of the target (no candidates,
\* an empty target, only empty candidates or candidates with a member outside
\* the target), nothing is chosen and the outliers are the whole target.
C11_NothingToChoose ==
    (UsDone /\ NonEmptySubsets = {}) =>
        result = [sets |-> {}, outliers |-> target]

\* a call that returns for a non-empty target, with an empty candidate and one
\* that overlaps the target but has a member outside it
C11_Witness ==
    /\ UsDone
    /\ NonEmptySubsets = {}
    /\ target # {}
    /\ \E k \in DOMAIN preexisting_sets : preexisting_sets[k] = {}
    /\ \E k \in DOMAIN preexisting_sets :
          preexisting_sets[k] \cap target # {} /\ ~(preexisting_sets[k] \subseteq target)

\* the bits of candidate k that no other candidate of `keys` has
UniqueBits(bitfields, keys, k) ==
    bitfields[k] \ UNION {bitfields[j] : j \in keys \ {k}}

\* the candidates with the most remaining bits
MostBits(bitfields) ==
    {k \in DOMAIN bitfields :
        \A j \in DOMAIN bitfields : Cardinality(bitfields[j]) <= Cardinality(bitfields[k])}

\* C21: every iteration of the loop selects a candidate with the most
\* remaining bits of all, and none of the candidates tied at that count has
\* more bits unique to itself than the selected one.
C21_SelectsLargestMostUnique ==
    [][(us_pc = "loop" /\ loop_guard(preexisting_set_bitfields)) =>
          \E sel \in output_keys' \ output_keys :
              /\ output_keys' = output_keys \cup {sel}
              /\ sel \in MostBits(preexisting_set_bitfields)
              /\ \A k \in MostBits(preexisting_set_bitfields) :
                    Cardinality(UniqueBits(preexisting_set_bitfields,
                                           MostBits(preexisting_set_bitfields), k))
                    <= Cardinality(UniqueBits(preexisting_set_bitfields,
                                              MostBits(preexisting_set_bitfields), sel))]_vars

\* three candidates of one size were tied, none disjoint from the others, and
\* the one selected is the only one with a member of its own
C21_Witness ==
    /\ us_pc = "loop"
    /\ Cardinality(DOMAIN preexisting_sets) = 3
    /\ \A k \in DOMAIN preexisting_sets :
          preexisting_sets[k] \subseteq target /\ Cardinality(preexisting_sets[k]) = 2
    /\ \E sel \in output_keys :
          /\ output_keys = {sel}
          /\ UniqueBits(preexisting_sets, DOMAIN preexisting_sets, sel) # {}
          /\ UniqueBits(preexisting_sets, DOMAIN preexisting_sets, sel) # preexisting_sets[sel]
          /\ \A k \in DOMAIN preexisting_sets \ {sel} :
                UniqueBits(preexisting_sets, DOMAIN preexisting_sets, k) = {}

\* C24: no expect, unwrap or unreachable of unionize_set can fire: every
\* identity of target and of the surviving candidates has an index, inside
\* the loop the map and the tied list are not empty, every selected key is a
\* key of the input map, and every bit set in the working target is the
\* index of a member of target.
C24_NoPanic ==
    us_pc = "loop" =>
        /\ \A v \in target \cup UnionOver(preexisting_sets, DOMAIN preexisting_set_bitfields) :
              v \in DOMAIN value_to_index
        /\ loop_guard(preexisting_set_bitfields) =>
              /\ DOMAIN preexisting_set_bitfields # {}
              /\ tied_keys(preexisting_set_bitfields) # {}
              /\ selectable_sets(preexisting_set_bitfields) # {}
              /\ selectable_sets(preexisting_set_bitfields) \subseteq DOMAIN preexisting_sets
        /\ output_keys \subseteq DOMAIN preexisting_sets
        /\ \A i \in target_bitfield : \E v \in target : value_to_index[v] = i

\* inside the loop after a selection, with two candidates tied for the next
\* one and a member of target that no candidate covers
C24_Witness ==
    /\ us_pc = "loop"
    /\ output_keys # {}
    /\ loop_guard(preexisting_set_bitfields)
    /\ Cardinality(tied_keys(preexisting_set_bitfields)) = 2
    /\ target_bitfield \ UnionOver(preexisting_set_bitfields, DOMAIN preexisting_set_bitfields) # {}

\* C25: the chosen keys and the outliers together are not more than the
\* members of target, so the subtraction in dry_run cannot underflow.
C25_SavedMentionsNotNegative ==
    UsDone => Cardinality(result.sets) + Cardinality(result.outliers) <= Cardinality(target)

\* every member of target is counted: each chosen key stands for one member
\* only, or is an outlier
C25_Witness ==
    /\ UsDone
    /\ Cardinality(result.sets) = 2
    /\ Cardinality(result.outliers) = 1
    /\ Cardinality(target) = 3

\* C26: the selection loop terminates: every iteration selects a candidate
\* that has a remaining bit and clears it, taking a bit from the working
\* target, and there are at most as many iterations as target has members.
C26_LoopTerminates ==
    /\ [][(us_pc = "loop" /\ loop_guard(preexisting_set_bitfields)) =>
            \E sel \in DOMAIN preexisting_set_bitfields \ output_keys :
                /\ output_keys' = output_keys \cup {sel}
                /\ preexisting_set_bitfields[sel] # {}
                /\ preexisting_set_bitfields'[sel] = {}
                /\ target_bitfield' # target_bitfield
                /\ target_bitfield' \subseteq target_bitfield]_vars
    /\ [](us_pc = "loop" => Cardinality(output_keys) <= Cardinality(target))
    /\ (us_pc = "loop") ~> (us_pc = "done")

\* the loop has run as often as target has members
C26_Witness ==
    /\ us_pc = "loop"
    /\ ~loop_guard(preexisting_set_bitfields)
    /\ Cardinality(target) = 2
    /\ Cardinality(output_keys) = 2
    /\ Cardinality(DOMAIN preexisting_set_bitfields) = 3

(***************************************************************************)
(* Claims about interpret                                                  *)
(***************************************************************************)
IpDone == ip_pc = "done"

\* the leaves of a tree from left to right, each as the resolver call it stands for
RECURSIVE LeafSeq(_, _)
LeafSeq(node, path) ==
    IF IsLeaf(node)
    THEN <<[path |-> path, method |-> resolver_method(node), arg |-> node.v]>>
    ELSE LeafSeq(node.lhs, Append(path, "l")) \o LeafSeq(node.rhs, Append(path, "r"))

\* the set the resolver returned for the leaf at `path`
Returned(path) ==
    LET i == CHOOSE j \in DOMAIN ip_calls : ip_calls[j].path = path
    IN ip_returns[i].value

\* the tree with every leaf replaced by the set returned for it, and the
\* set operation of each node applied
RECURSIVE Denote(_, _)
Denote(node, path) ==
    IF IsLeaf(node) THEN Returned(path)
    ELSE LET l == Denote(node.lhs, Append(path, "l"))
             r == Denote(node.rhs, Append(path, "r"))
         IN CASE node.kind = "Union" -> l \cup r
              [] node.kind = "Intersection" -> l \cap r
              [] node.kind = "Difference" -> {x \in l : x \notin r}

\* C4: when every resolver call has succeeded, interpret returns Ok of the set
\* got by putting each leaf's returned set in its place and applying union,
\* intersection and left-minus-right difference at the nodes.
C4_SetAlgebra ==
    (IpDone /\ \A i \in DOMAIN ip_returns : ip_returns[i].ok) =>
        ip_result = Ok(Denote(ip_node, << >>))

C4_Witness ==
    /\ IpDone
    /\ ip_result.ok
    /\ ip_node.kind = "Difference"
    /\ ~IsLeaf(ip_node.rhs)
    /\ ip_node.rhs.kind = "Intersection"
    /\ ip_result.value # {}
    /\ Len(ip_returns) = 3

\* C5: when a resolver call has returned an error, interpret returns that
\* error, and never Ok.
C5_ErrorsBubble ==
    IpDone =>
        \A i \in DOMAIN ip_returns :
            ~ip_returns[i].ok => ip_result = Err(ip_returns[i].err)

C5_Witness ==
    /\ IpDone
    /\ Len(ip_returns) = 3
    /\ ip_returns[1].ok /\ ip_returns[1].value # {}
    /\ ip_returns[2].ok /\ ip_returns[2].value # {}
    /\ ~ip_returns[3].ok
    /\ ip_result = Err("permission_denied")

\* C6: the resolver calls made so far are the first leaves of the tree from
\* left to right, one call per leaf; at most one call is in flight, and a call
\* starts only when all the calls before it have returned.
C6_SequentialPostOrder ==
    LET leaves == LeafSeq(ip_node, << >>)
    IN /\ Len(ip_calls) <= Len(leaves)
       /\ \A i \in DOMAIN ip_calls : ip_calls[i] = leaves[i]
       /\ ip_inflight \in {0, 1}
       /\ Len(ip_calls) = Len(ip_returns) + ip_inflight
       /\ (IpDone /\ ip_result.ok) => Len(ip_calls) = Len(leaves)

C6_Witness ==
    /\ ip_pc = "await"
    /\ ip_inflight = 1
    /\ ~IsLeaf(ip_node)
    /\ ~IsLeaf(ip_node.lhs)
    /\ Len(ip_calls) = 3
    /\ Len(ip_returns) = 2
    /\ ip_calls[3].path = <<"r">>

\* C22: once a resolver call has returned an error there is no further
\* resolver call in the evaluation: the failed call is the last one made, no
\* call is in flight and interpret has returned.
C22_NoCallAfterError ==
    \A i \in DOMAIN ip_returns :
        ~ip_returns[i].ok =>
            /\ Len(ip_calls) = i
            /\ ip_inflight = 0
            /\ IpDone

\* the first of three leaves failed: the two to its right were never resolved
C22_Witness ==
    /\ IpDone
    /\ Len(LeafSeq(ip_node, << >>)) = 3
    /\ Len(ip_returns) = 1
    /\ ~ip_returns[1].ok
    /\ Len(ip_calls) = 1

\* Union(Union(...Union(e1, e2)...), en)
RECURSIVE LeftNested(_)
LeftNested(chunks) ==
    IF Len(chunks) = 1 THEN chunks[1]
    ELSE Node("Union", LeftNested(SubSeq(chunks, 1, Len(chunks) - 1)), chunks[Len(chunks)])

\* where chunk k of n stands in that tree
ChunkPath(k, n) ==
    IF k = 1 THEN [i \in 1..n - 1 |-> "l"]
    ELSE [i \in 1..n - k |-> "l"] \o <<"r">>

\* the leaves of the chunks, in message order
RECURSIVE ChunkLeaves(_)
ChunkLeaves(k) ==
    IF k = 0 THEN << >>
    ELSE ChunkLeaves(k - 1) \o LeafSeq(fd_chunks[k], ChunkPath(k, Len(fd_chunks)))

\* C23: folding the trees of the chunks gives no tree for no chunk, the tree
\* itself for one chunk and the left-nested Union otherwise; interpreting it
\* resolves the leaves of the chunks in message order and gives the union of
\* the sets of the chunks.
C23_FoldedUnion ==
    /\ fd_pc = "none" => (fd_chunks = << >> /\ ip_pc = "idle")
    /\ fd_pc = "folded" =>
          /\ fd_chunks # << >>
          /\ ip_node = LeftNested(fd_chunks)
          /\ \A i \in DOMAIN ip_calls : ip_calls[i] = ChunkLeaves(Len(fd_chunks))[i]
          /\ (IpDone /\ \A i \in DOMAIN ip_returns : ip_returns[i].ok) =>
                /\ ip_calls = ChunkLeaves(Len(fd_chunks))
                /\ ip_result =
                      Ok(UNION {Denote(fd_chunks[k], ChunkPath(k, Len(fd_chunks))) :
                                  k \in DOMAIN fd_chunks})

\* three chunks, the second with an operator, folded and interpreted
C23_Witness ==
    /\ fd_pc = "folded"
    /\ IpDone
    /\ ip_result.ok
    /\ Len(fd_chunks) = 3
    /\ fd_chunks[2] = OpChunk
    /\ Len(ip_calls) = 4
    /\ ip_returns[1].value # ip_returns[4].value
    /\ ip_result.value = ip_returns[1].value \cup ip_returns[4].value

(***************************************************************************)
(* Claims about rendering and parsing                                      *)
(***************************************************************************)
\* C7: a tree that parse_drql returned as Ok, rendered with Display and parsed
\* again, gives Ok of a structurally equal tree.
C7_RoundTrip ==
    rt_pc = "done" =>
        rt_reparsed = [status |-> "Ok", tree |-> rt_parsed.tree, errors |-> << >>]

(***************************************************************************)
(* Claims about scan                                                       *)
(***************************************************************************)
\* the position of the first "}" at or after position i, or 0
FirstClose(s, i) ==
    LET closes == {e \in i..Len(s) : s[e] = "}"}
    IN IF closes = {} THEN 0 ELSE Min(closes)

\* the substrings between each "@{" and the first "}" that follows it, from
\* position i on, in order and without overlap
RECURSIVE Enclosed(_, _)
Enclosed(s, i) ==
    IF i + 1 > Len(s) THEN << >>
    ELSE IF StartsWith(s, i, <<"@", "{">>)
         THEN LET e == FirstClose(s, i + 2)
              IN IF e = 0 THEN << >>
                 ELSE <<SubSeq(s, i + 2, e - 1)>> \o Enclosed(s, e + 1)
         ELSE Enclosed(s, i + 1)

\* C12: scan yields, in order and without overlap, exactly the substrings
\* between each "@{" and the first "}" after it, also when that substring is
\* empty or has a line break in it; no chunk has a "}" in it.
C12_ScanYieldsEnclosed ==
    sc_pc = "done" =>
        /\ sc_chunks = Enclosed(sc_input, 1)
        /\ \A n \in DOMAIN sc_chunks : \A i \in DOMAIN sc_chunks[n] : sc_chunks[n][i] # "}"

(***************************************************************************)
(* Claims about the lexer and parse_drql                                   *)
(***************************************************************************)
LxDone == lx_pc = "done"

\* C15: parse_drql returns Ok only when the parser finished and recorded no
\* error; a tree with recorded errors comes back as Recoverable with that tree
\* and every recorded error; a parser that stopped gives Fatal.
C15_OkOnlyWithoutErrors ==
    LxDone =>
        /\ lx_parsed.status = "Ok" =>
              /\ ~lx_outcome.fatal /\ lx_outcome.errors = << >>
              /\ lx_parsed.tree = lx_outcome.tree
        /\ (~lx_outcome.fatal /\ lx_outcome.errors # << >>) =>
              lx_parsed = [status |-> "Recoverable", tree |-> lx_outcome.tree,
                           errors |-> lx_outcome.errors]
        /\ lx_outcome.fatal => lx_parsed.status = "Fatal"

\* the parser recovered twice and produced a partial tree
C15_Witness ==
    /\ LxDone
    /\ ~lx_outcome.fatal
    /\ Len(lx_outcome.errors) = 2
    /\ lx_parsed.status = "Recoverable"

\* C16: a text that lexes to no token at all (empty, or skipped characters
\* only) makes parse_drql return Fatal, never Ok.
C16_NoTokensIsFatal ==
    (LxDone /\ lx_items = << >>) => lx_parsed.status = "Fatal"

\* a text of skipped characters only was lexed and parsed
C16_Witness ==
    /\ LxDone
    /\ lx_items = << >>
    /\ Len(lx_input) >= 2

\* the characters of words
WordChars == Lower \cup Upper \cup Digits \cup {"_"}

\* the items of the lexer that start at position i of the text
ItemsAt(i) ==
    {k \in DOMAIN lx_items : lx_items[k].ok /\ lx_items[k].start = ByteOffset(lx_input, i)}

\* every "@" of the text begins a token that is a word of its own: no word
\* character stands right before or right after it
MentionsAreWords ==
    \A i \in DOMAIN lx_input :
        lx_input[i] = "@" =>
            /\ i = 1 \/ lx_input[i - 1] \notin WordChars
            /\ \E k \in ItemsAt(i) :
                  lx_items[k].next > Len(lx_input) \/ lx_input[lx_items[k].next] \notin WordChars

IsNotAt(char) == char # "@"

\* the query with the bare words in place of the mentions
Bare(text) == SelectSeq(text, IsNotAt)

\* a token without its span
Unspanned(item) == [ok |-> item.ok, tok |-> item.tok, payload |-> item.payload]

UnspannedAll(items) == [k \in DOMAIN items |-> Unspanned(items[k])]

\* C13: the lexer gives for `@everyone` and `@here` the tokens it gives for the
\* bare words `everyone` and `here`, but for the span, so the query with the
\* mentions parses as the query with the bare words.
C13_MentionSameAsBare ==
    (LxDone /\ MentionsAreWords) =>
        /\ \A i \in DOMAIN lx_input :
              lx_input[i] = "@" =>
                 \A k \in ItemsAt(i) :
                    /\ lx_items[k].tok = "StringLiteral"
                    /\ lx_items[k].payload \in
                          {<<"e", "v", "e", "r", "y", "o", "n", "e">>, <<"h", "e", "r", "e">>}
                    /\ Unspanned(lx_items[k]) = Unspanned(NextToken(lx_items[k].payload, 1))
                    /\ lx_items[k].end - lx_items[k].start = Len(lx_items[k].payload) + 1
        /\ UnspannedAll(lx_items) = UnspannedAll(DrqlLexer(Bare(lx_input), 1))
        /\ lx_parsed \in parse_drql_results(Bare(lx_input))
        /\ parse_drql(lx_input) = parse_drql(Bare(lx_input))

\* a query with both mentions that parses to a tree
C13_Witness ==
    /\ LxDone
    /\ MentionsAreWords
    /\ lx_parsed.status = "Ok"
    /\ lx_parsed.tree.kind = "Difference"
    /\ lx_parsed.tree.lhs = StringLiteral(<<"e", "v", "e", "r", "y", "o", "n", "e">>)
    /\ lx_parsed.tree.rhs = StringLiteral(<<"h", "e", "r", "e">>)
    /\ Len(Bare(lx_input)) = Len(lx_input) - 2

IsNotSkipped(char) == char \notin Whitespace

\* l0 op1 l1 ... opn ln, without the skipped characters
IsOpQuery(chars) ==
    /\ Len(chars) % 2 = 1
    /\ \A i \in DOMAIN chars :
          IF i % 2 = 1 THEN chars[i] \in Lower ELSE chars[i] \in {"+", "|", "-", "&"}

\* the tree of such a query: split at the last of + | -, where there is none
\* at the last &
RECURSIVE TreeOf(_)
TreeOf(chars) ==
    LET low == {i \in DOMAIN chars : chars[i] \in {"+", "|", "-"}}
        amp == {i \in DOMAIN chars : chars[i] = "&"}
        at  == IF low # {} THEN Max(low) ELSE Max(amp)
    IN IF low = {} /\ amp = {} THEN StringLiteral(chars)
       ELSE Node(IF chars[at] = "-" THEN "Difference"
                 ELSE IF chars[at] = "&" THEN "Intersection" ELSE "Union",
                 TreeOf(SubSeq(chars, 1, at - 1)),
                 TreeOf(SubSeq(chars, at + 1, Len(chars))))

\* C14: a query without parentheses parses to the tree in which & binds
\* tighter than + | -, and + | - are one level that associates to the left,
\* + and | both giving Union.
C14_Precedence ==
    (LxDone /\ IsOpQuery(SelectSeq(lx_input, IsNotSkipped))) =>
        lx_parsed = [status |-> "Ok", tree |-> TreeOf(SelectSeq(lx_input, IsNotSkipped)),
                     errors |-> << >>]

\* a - b & a + b parsed: Union(Difference(a, Intersection(b, a)), b)
C14_Witness ==
    /\ LxDone
    /\ lx_parsed.status = "Ok"
    /\ lx_parsed.tree.kind = "Union"
    /\ lx_parsed.tree.lhs.kind = "Difference"
    /\ lx_parsed.tree.lhs.rhs.kind = "Intersection"

\* the characters some rule of the lexer begins with
TokenStarts ==
    {"+", "-", "|", "&", "(", ")", "\"", "_", "@", "<"} \cup Lower \cup Upper \cup Digits

StartsNoToken(char) == char \notin TokenStarts \cup Whitespace

\* C17: when next() finds a character that starts no token, it yields
\* UnknownToken with the byte offset of that position and that character, the
\* items yielded before stay as they were, and the iterator has not ended: it
\* goes on from the character after the bad one.
C17_UnknownTokenThenOn ==
    [][LET p == SkipWhitespace(lx_input, lx_pos)
       IN (lx_pc = "lexing" /\ p <= Len(lx_input) /\ StartsNoToken(lx_input[p])) =>
            /\ Len(lx_items') = Len(lx_items) + 1
            /\ SubSeq(lx_items', 1, Len(lx_items)) = lx_items
            /\ LET item == lx_items'[Len(lx_items')]
               IN /\ ~item.ok
                  /\ item.tok = "UnknownToken"
                  /\ item.start = ByteOffset(lx_input, p)
                  /\ item.payload = <<lx_input[p]>>
            /\ lx_pc' = "lexing"
            /\ lx_pos' = p + 1]_vars

\* a token, then a two-byte character that starts no token, then a token
C17_Witness ==
    \E k \in 2..Len(lx_items) - 1 :
        /\ lx_items[k].tok = "UnknownToken"
        /\ StartsNoToken(lx_items[k].payload[1])
        /\ lx_items[k].end = lx_items[k].start + 2
        /\ lx_items[k - 1].ok
        /\ lx_items[k + 1].ok
        /\ lx_items[k + 1].start >= lx_items[k].end

(***************************************************************************)
(* Claims about wrap_string_vec and chunk_str_vec_into_max_size            *)
(***************************************************************************)
WsOk == ws_pc = "done" /\ ws_status = "Ok"

\* C18: every string of an Ok result is at most `size` long.
C18_ChunksFit ==
    WsOk => \A k \in DOMAIN ws_result : Len(ws_result[k]) <= ws_size

\* two chunks came back, one of them two elements and a separator filling the
\* size exactly
C18_Witness ==
    /\ WsOk
    /\ Len(ws_result) >= 2
    /\ ws_sep # << >>
    /\ \E k \in DOMAIN ws_result :
          /\ Len(ws_result[k]) = ws_size
          /\ \E i \in 1..Len(ws_input) - 1 :
                ws_result[k] = ws_input[i] \o ws_sep \o ws_input[i + 1]

\* C19: the call returns Err exactly when some element of the input is longer
\* than `size`, and Ok otherwise; an empty input gives Ok with an empty vector.
C19_ErrIffTooLarge ==
    ws_pc = "done" =>
        /\ ws_status = "Err" <=> \E i \in DOMAIN ws_input : Len(ws_input[i]) > ws_size
        /\ ws_status \in {"Ok", "Err"}
        /\ ws_input = << >> => (ws_status = "Ok" /\ ws_result = << >>)

\* Err for a vector whose last element alone is too long
C19_Witness ==
    /\ ws_pc = "done"
    /\ ws_status = "Err"
    /\ Len(ws_input) >= 2
    /\ \A i \in 1..Len(ws_input) - 1 : Len(ws_input[i]) <= ws_size

\* the elements joined by the separator
RECURSIVE Joined(_, _)
Joined(strs, sep) ==
    IF Len(strs) = 1 THEN strs[1]
    ELSE Joined(SubSeq(strs, 1, Len(strs) - 1), sep) \o sep \o strs[Len(strs)]

\* the chunks that each hold as many consecutive elements as fit, at least one
RECURSIVE Greedy(_, _, _)
Greedy(strs, sep, size) ==
    IF strs = << >> THEN << >>
    ELSE LET n == Max({1} \cup {n \in 1..Len(strs) : Len(Joined(SubSeq(strs, 1, n), sep)) <= size})
         IN <<Joined(SubSeq(strs, 1, n), sep)>> \o Greedy(SubSeq(strs, n + 1, Len(strs)), sep, size)

\* C20: each returned string holds as many consecutive elements, joined by the
\* separator, as fit in `size`: a chunk is closed only when the next element
\* would not fit, so each holds at least one element. Stated for vectors of
\* strings that are not empty, where a chunk with an element is not empty.
C20_AsManyAsFit ==
    (WsOk /\ \A i \in DOMAIN ws_input : ws_input[i] # << >>) =>
        /\ \A k \in DOMAIN ws_result : ws_result[k] # << >>
        /\ ws_result = Greedy(ws_input, ws_sep, ws_size)

\* the ways to cut n elements into m consecutive groups, a group being the
\* elements after cut[j - 1] up to cut[j]
Cuts(n, m) ==
    {cut \in [0..m -> 0..n] :
        /\ cut[0] = 0
        /\ cut[m] = n
        /\ \A j \in 1..m : cut[j - 1] <= cut[j]}

\* the chunk that lists the elements of a group
ChunkListing(group, sep) == IF group = << >> THEN << >> ELSE Joined(group, sep)

\* the chunks list the elements of strs, each once and in order
ListsExactly(chunks, strs, sep) ==
    \E cut \in Cuts(Len(strs), Len(chunks)) :
        \A j \in DOMAIN chunks :
            chunks[j] = ChunkListing(SubSeq(strs, cut[j - 1] + 1, cut[j]), sep)

\* C27: when the call returns Ok, the elements of the input are distributed
\* over the returned chunks without loss, duplication or reordering: the
\* elements of the first chunk, then of the second, and so on, are the input.
C27_NothingLost ==
    WsOk => ListsExactly(ws_result, ws_input, ws_sep)

(***************************************************************************)
(* Claims about the Resolver                                               *)
(***************************************************************************)
RsDone == rs_pc = "done"

\* the members and the roles of the guild whose name is the literal
MembersNamed(literal) == {m \in DOMAIN rs_members : rs_members[m] = literal}
RolesNamed(literal) == {r \in DOMAIN rs_roles : rs_roles[r].name = literal}

\* C28: in resolve_string_literal for a literal other than everyone and here,
\* whatever the numbers of members and of roles that match, the call either
\* returns an error (both at least one, more than one member, more than one
\* role, or none at all) or goes on with exactly one match: the assertion
\* holds and the unreachable arm is not reached.
C28_CountsDecided ==
    [][(/\ rs_pc = "call"
        /\ rs_call.method = "resolve_string_literal"
        /\ rs_call.literal \notin {"everyone", "here"}) =>
          LET members_matched == Cardinality(MembersNamed(rs_call.literal))
              roles_matched == Cardinality(RolesNamed(rs_call.literal))
          IN /\ rs_result'.kind \notin {"assert", "unreachable"}
             /\ IF \/ members_matched >= 1 /\ roles_matched >= 1
                   \/ members_matched > 1
                   \/ roles_matched > 1
                   \/ members_matched = 0 /\ roles_matched = 0
                THEN rs_pc' = "done" /\ rs_result' = RsErr
                ELSE members_matched + roles_matched = 1]_vars

\* a literal that names one role and no member, in a guild with a member and
\* with another role, went on to resolve_role_id
C28_Witness ==
    /\ rs_pc = "call"
    /\ rs_call.method = "resolve_role_id"
    /\ RolesNamed("a") = {rs_call.id}
    /\ <<"can_mention_role", rs_call.id>> \in rs_checked
    /\ MembersNamed("a") = {}
    /\ rs_members # << >>
    /\ Cardinality(DOMAIN rs_roles) = 3

\* C29: the Resolver never returns the members of a role to an invoker who
\* cannot mention it: whichever way the role was named, its members are
\* returned only after can_mention_role succeeded for the invoker, and the
\* everyone and here sets only after the mention_everyone permission was
\* checked; otherwise the call is an error.
C29_RoleMembersOnlyIfMentionable ==
    (RsDone /\ rs_result.ok) =>
        /\ rs_result.kind = "role" =>
              /\ <<"can_mention_role", rs_result.id>> \in rs_checked
              /\ can_mention_role(rs_invoker, rs_roles[rs_result.id]).value
        /\ rs_result.kind \in {"everyone", "here"} =>
              /\ <<"mention_everyone", GuildId>> \in rs_checked
              /\ rs_invoker.mention_everyone

(***************************************************************************)
(* Claims about all_roles_and_members                                      *)
(***************************************************************************)
\* C30: in the candidate map built by all_roles_and_members the entries
\* Everyone and Here are present, the Here set is a subset of the Everyone
\* set and so is the set of every role; hence with the Everyone set as
\* target every candidate qualifies as a subset of the target.
C30_AllWithinEveryone ==
    (gm_pc = "done" /\ gm_status = "Ok") =>
        /\ Everyone \in DOMAIN gm_map
        /\ Here \in DOMAIN gm_map
        /\ gm_map[Here] \subseteq gm_map[Everyone]
        /\ \A k \in DOMAIN gm_map : gm_map[k] \subseteq gm_map[Everyone]
        /\ filtered_preexisting_sets(gm_map[Everyone], gm_map) = DOMAIN gm_map

\* one member, who is offline and has two roles, while the guild also knows
\* the presence of someone online who is not a member
C30_Witness ==
    /\ gm_pc = "done"
    /\ gm_status = "Ok"
    /\ Cardinality(gm_map[Everyone]) = 1
    /\ gm_map[Here] = {}
    /\ Cardinality(DOMAIN gm_map) = 4
    /\ \E id \in DOMAIN gm_presences :
          id \notin DOMAIN gm_members /\ gm_presences[id] = "Online"

(***************************************************************************)
(* Specifications                                                          *)
(***************************************************************************)
UsIdle ==
    /\ us_pc = "idle"
    /\ call = 0
    /\ target = {}
    /\ preexisting_sets = << >>
    /\ next_id = 0
    /\ value_to_index = << >>
    /\ target_bitfield = {}
    /\ preexisting_set_bitfields = << >>
    /\ output_keys = {}
    /\ result = NoResult
    /\ first_result = NoResult

IpIdle ==
    /\ ip_pc = "idle"
    /\ ip_node = StringLiteral(<<"a">>)
    /\ ip_stack = << >>
    /\ ip_calls = << >>
    /\ ip_returns = << >>
    /\ ip_inflight = 0
    /\ ip_result = NoValue

RtIdle ==
    /\ rt_pc = "idle"
    /\ rt_input = << >>
    /\ rt_parsed = NotParsed
    /\ rt_rendered = << >>
    /\ rt_reparsed = NotParsed

ScIdle ==
    /\ sc_pc = "idle"
    /\ sc_input = << >>
    /\ sc_pos = 0
    /\ sc_chunks = << >>

LxIdle ==
    /\ lx_pc = "idle"
    /\ lx_input = << >>
    /\ lx_pos = 0
    /\ lx_items = << >>
    /\ lx_outcome = NoOutcome
    /\ lx_parsed = NotParsed

WsIdle ==
    /\ ws_pc = "idle"
    /\ ws_fn = "-"
    /\ ws_input = << >>
    /\ ws_sep = << >>
    /\ ws_size = 0
    /\ ws_rest = << >>
    /\ ws_current = << >>
    /\ ws_result = << >>
    /\ ws_status = "-"

FdIdle ==
    /\ fd_pc = "idle"
    /\ fd_chunks = << >>
    /\ fd_rest = << >>
    /\ fd_acc = None

RsIdle ==
    /\ rs_pc = "idle"
    /\ rs_roles = << >>
    /\ rs_members = << >>
    /\ rs_invoker = Permissions(FALSE, FALSE, FALSE, FALSE, FALSE)
    /\ rs_call = NoCall
    /\ rs_checked = {}
    /\ rs_result = RsNone

GmIdle ==
    /\ gm_pc = "idle"
    /\ gm_members = << >>
    /\ gm_presences = << >>
    /\ gm_rest = {}
    /\ gm_map = NoMap
    /\ gm_status = "-"

\* unionize_set, called twice on one input
Init == UsInit /\ IpIdle /\ RtIdle /\ ScIdle /\ LxIdle /\ WsIdle /\ FdIdle /\ RsIdle /\ GmIdle

Next == UsBuild \/ UsIterate \/ UsFinish \/ UsCallAgain

Spec == Init /\ [][Next]_vars

\* interpret, with a resolver that answers as it pleases
InitInterpret == IpInit /\ UsIdle /\ RtIdle /\ ScIdle /\ LxIdle /\ WsIdle /\ FdIdle /\ RsIdle /\ GmIdle

NextInterpret == IpStart \/ IpResolverReturns

SpecInterpret == InitInterpret /\ [][NextInterpret]_vars

\* a query text is parsed, the tree rendered, the rendering parsed
InitRoundTrip == RtInit /\ UsIdle /\ IpIdle /\ ScIdle /\ LxIdle /\ WsIdle /\ FdIdle /\ RsIdle /\ GmIdle

NextRoundTrip == RtParse \/ RtRender \/ RtReparse

SpecRoundTrip == InitRoundTrip /\ [][NextRoundTrip]_vars

\* a text is scanned, one item of the iterator at a time
InitScan == ScInit /\ UsIdle /\ IpIdle /\ RtIdle /\ LxIdle /\ WsIdle /\ FdIdle /\ RsIdle /\ GmIdle

NextScan == ScYield \/ ScEnd

SpecScan == InitScan /\ [][NextScan]_vars

\* a text is lexed, one item of the iterator at a time, and then parsed
InitLex == LxInit(LexTexts(MaxLen)) /\ UsIdle /\ IpIdle /\ RtIdle /\ ScIdle /\ WsIdle /\ FdIdle /\ RsIdle /\ GmIdle

NextLex == LxNext \/ LxNone \/ LxParse

SpecLex == InitLex /\ [][NextLex]_vars

\* the same, for queries with mentions
InitMention == LxInit(MentionTexts(MaxWords)) /\ UsIdle /\ IpIdle /\ RtIdle /\ ScIdle /\ WsIdle /\ FdIdle /\ RsIdle /\ GmIdle

SpecMention == InitMention /\ [][NextLex]_vars

\* the same, for queries without parentheses
InitPrecedence == LxInit(OpQueries(MaxOps)) /\ UsIdle /\ IpIdle /\ RtIdle /\ ScIdle /\ WsIdle /\ FdIdle /\ RsIdle /\ GmIdle

SpecPrecedence == InitPrecedence /\ [][NextLex]_vars

\* a vector of strings is wrapped by one of the two functions
InitWrap == WsInit /\ UsIdle /\ IpIdle /\ RtIdle /\ ScIdle /\ LxIdle /\ FdIdle /\ RsIdle /\ GmIdle

NextWrap == WrapNext \/ ChunkNext \/ WsReturn

SpecWrap == InitWrap /\ [][NextWrap]_vars

\* one call of unionize_set, which once started runs on; target is one
\* identity short of all, as every indexing of the identities is a behaviour
InitTerminates ==
    /\ Init
    /\ Cardinality(target) < MaxId

NextTerminates == UsBuild \/ UsIterate \/ UsFinish

SpecTerminates == InitTerminates /\ [][NextTerminates]_vars /\ WF_vars(NextTerminates)

\* one request of the interpreter to the Resolver of a guild
InitResolver == RsInit /\ UsIdle /\ IpIdle /\ RtIdle /\ ScIdle /\ LxIdle /\ WsIdle /\ FdIdle /\ GmIdle

NextResolver == RsStringLiteral \/ RsUnknownId \/ RsUserId \/ RsRoleId

SpecResolver == InitResolver /\ [][NextResolver]_vars

\* one call of all_roles_and_members on a guild
InitGuild == GmInit /\ UsIdle /\ IpIdle /\ RtIdle /\ ScIdle /\ LxIdle /\ WsIdle /\ FdIdle /\ RsIdle

NextGuild == GmStart \/ GmMember \/ GmReturn

SpecGuild == InitGuild /\ [][NextGuild]_vars

\* the trees of a message's chunks are folded and the result is interpreted
InitFold == FdInit /\ UsIdle /\ IpIdle /\ RtIdle /\ ScIdle /\ LxIdle /\ WsIdle /\ RsIdle /\ GmIdle

NextFold == FdNext \/ FdEnd \/ IpStart \/ IpResolverReturns

SpecFold == InitFold /\ [][NextFold]_vars

=============================================================================
